---- MODULE Spec2Model ----
(***************************************************************************)
(* PSX Verb: the SPU reverb plugin.  The instance-based engine (API v2) is *)
(* modelled as a state machine over one instance; the legacy global engine *)
(* (API v1) contributes its preset scaler and live-modulation functions.   *)
(*                                                                         *)
(* Numbers.  A C float is modelled as a fixed-point integer n standing for *)
(* n / 2^20 (One = 1.0).  Sums and differences are exact; a product or a   *)
(* quotient is rounded to the nearest multiple of 2^-20.  int16 samples,   *)
(* register values and Work Area cells are plain integers.  A parameter    *)
(* string is a decimal number with four fractional digits, written as the  *)
(* integer d standing for d / 10^4 ("0.8" is 8000, "7" is 70000).          *)
(***************************************************************************)
EXTENDS Integers, Sequences, FiniteSets, TLC

VARIABLES
  inst,    \* the psxverb_instance_t of the live instance
  audio,   \* audio_inout as the last process call left it
  ret,     \* return value of the last get_param call
  buf,     \* output buffer as the last get_param call left it
  op,      \* the last host call and its arguments
  nops,    \* number of host calls so far
  heard,   \* impulse scenario: ticks before the first nonzero right output, -1 if none yet
  run,     \* the process call in progress on the live instance, if any
  heap     \* the allocator's live blocks and the instances created on demand

vars == <<inst, audio, ret, buf, op, nops, heard, run, heap>>

(***************************************************************************)
(* Bounds of the model.                                                    *)
(***************************************************************************)
MaxOps == 3

\* low-rate ticks of the impulse scenario
MaxTicks == 1650

\* host calls of the dry scenario
MaxDryOps == 260

\* host calls of the loud scenario
MaxLoudOps == 120

\* calls that fill the history of a halfband filter
MaxFill == 20

\* calls of halfband_decimate(0, 0) after the fill
MaxZeroCalls == 23

\* host calls of the long-run scenario
MaxTurnOps == 4

\* host calls of the two-run scenario
MaxTwinOps == 640

\* host calls of the Work Area scenario
MaxWorkOps == 3

\* blocks the allocator can hand out
MaxBlocks == 5

\* host calls of the scenario with instances on demand
MaxHeapOps == 4

(***************************************************************************)
(* Fixed-point arithmetic standing for float arithmetic.                   *)
(***************************************************************************)
One == 1024 * 1024

Abs(x) == IF x < 0 THEN -x ELSE x

Sgn(x) == IF x < 0 THEN -1 ELSE IF x > 0 THEN 1 ELSE 0

\* n / d rounded to nearest, ties away from zero (n >= 0, d > 0)
RoundDiv(n, d) == (n + d \div 2) \div d

\* n / d rounded to nearest, ties to even (n >= 0, d > 0): printf's rounding
RoundHalfEven(n, d) ==
  LET q == n \div d
      r == n % d
  IN IF 2 * r > d \/ (2 * r = d /\ q % 2 = 1) THEN q + 1 ELSE q

\* |a| * |b| / One rounded to nearest, in 32-bit-safe limbs of 10 bits
MulMag(a, b) ==
  LET ah == a \div 1024
      al == a % 1024
      bh == b \div 1024
      bl == b % 1024
      lo == (al * bl + 512 * 1024) \div 1024
      mid == ah * bl + al * bh + lo
  IN ah * bh + mid \div 1024

\* float a * b
Mul(a, b) ==
  IF a = 0 \/ b = 0 THEN 0
  ELSE (IF (a < 0) = (b < 0) THEN 1 ELSE -1) * MulMag(Abs(a), Abs(b))

\* float a / b for a >= 0, b > 0; a quotient of 1024.0 or more saturates
Div(a, b) ==
  IF a \div b >= 1024 THEN 1024 * One
  ELSE LET q0 == a \div b
           r0 == a % b
           q1 == (r0 * 1024) \div b
           r1 == (r0 * 1024) % b
           q2 == RoundDiv(r1 * 1024, b)
       IN q0 * One + q1 * 1024 + q2

\* a & b on non-negative integers
RECURSIVE BitAnd(_, _)
BitAnd(a, b) ==
  IF a = 0 \/ b = 0 THEN 0
  ELSE (a % 2) * (b % 2) + 2 * BitAnd(a \div 2, b \div 2)

\* a | b on non-negative integers
RECURSIVE BitOr(_, _)
BitOr(a, b) ==
  IF a = 0 THEN b
  ELSE IF b = 0 THEN a
  ELSE (IF a % 2 = 1 \/ b % 2 = 1 THEN 1 ELSE 0) + 2 * BitOr(a \div 2, b \div 2)

(***************************************************************************)
(* String conversions of the parameter surface.                            *)
(***************************************************************************)
\* (float)atof(s) of the decimal string d / 10^4
Atof(d) ==
  Sgn(d) * ((Abs(d) \div 625) * 65536 + RoundDiv((Abs(d) % 625) * 65536, 625))

\* atoi(s) of the decimal string d / 10^4: the integer part
Atoi(d) == Sgn(d) * (Abs(d) \div 10000)

\* (int)v of a float: truncation toward zero
FloatToInt(v) == Sgn(v) * (Abs(v) \div One)

\* snprintf("%.2f", v): the decimal string, as d / 10^2
Fmt2(v) == Sgn(v) * RoundHalfEven(Abs(v) * 25, 262144)

\* the state printed with "%.2f", as the single keys are
Fmt4_two_decimals(v) == Fmt2(v) * 100

\* snprintf("%.4f", v): the decimal string, as d / 10^4
Fmt4(v) == Sgn(v) * RoundHalfEven(Abs(v) * 625, 65536)

\* snprintf("%d", n): the decimal string, as d / 10^4
FmtD(n) == n * 10000

\* number of characters of the decimal numeral of n >= 0
RECURSIVE Digits(_)
Digits(n) == IF n < 10 THEN 1 ELSE 1 + Digits(n \div 10)

\* float literals of the source
F099 == RoundDiv(99 * One, 100)
F0995 == RoundDiv(995 * One, 1000)
F1em5 == RoundDiv(One, 100000)
F08 == Atof(8000)
F035 == Atof(3500)
F05 == One \div 2

(***************************************************************************)
(* Preset table: the SPU register values.                                  *)
(***************************************************************************)
WORK_MAX_SIZE == 65536

HB_TAPS == 39

HB_STATE_SIZE == 64

HB_STATE_MASK == 63

g_presets ==
  <<
    [
      dAPF1 |-> 125, dAPF2 |-> 91, vIIR |-> 28032, vCOMB1 |-> 21688, vCOMB2 |-> -16688,
      vCOMB3 |-> 0, vCOMB4 |-> 0, vWALL |-> -17792, vAPF1 |-> 22528, vAPF2 |-> 21248,
      mLSAME |-> 1238, mRSAME |-> 819, dLSAME |-> 820, dRSAME |-> 437, mLDIFF |-> 0,
      mRDIFF |-> 0, dLDIFF |-> 0, dRDIFF |-> 0, mLCOMB1 |-> 1008, mRCOMB1 |-> 551,
      mLCOMB2 |-> 884, mRCOMB2 |-> 495, mLCOMB3 |-> 0, mRCOMB3 |-> 0, mLCOMB4 |-> 0,
      mRCOMB4 |-> 0, mLAPF1 |-> 436, mRAPF1 |-> 310, mLAPF2 |-> 184, mRAPF2 |-> 92,
      vLIN |-> -32768, vRIN |-> -32768, vLOUT |-> -32768, vROUT |-> -32768, work_size |-> 9920,
      name |-> "Room" ],
    [
      dAPF1 |-> 51, dAPF2 |-> 37, vIIR |-> 28912, vCOMB1 |-> 20392, vCOMB2 |-> -17184,
      vCOMB3 |-> 17424, vCOMB4 |-> -16144, vWALL |-> -25600, vAPF1 |-> 21120, vAPF2 |-> 20160,
      mLSAME |-> 996, mRSAME |-> 795, dLSAME |-> 796, dRSAME |-> 605, mLDIFF |-> 604,
      mRDIFF |-> 398, dLDIFF |-> 399, dRDIFF |-> 181, mLCOMB1 |-> 932, mRCOMB1 |-> 687,
      mLCOMB2 |-> 882, mRCOMB2 |-> 614, mLCOMB3 |-> 559, mRCOMB3 |-> 309, mLCOMB4 |-> 466,
      mRCOMB4 |-> 183, mLAPF1 |-> 180, mRAPF1 |-> 128, mLAPF2 |-> 76, mRAPF2 |-> 38,
      vLIN |-> -32768, vRIN |-> -32768, vLOUT |-> -32768, vROUT |-> -32768, work_size |-> 8000,
      name |-> "Studio S" ],
    [
      dAPF1 |-> 177, dAPF2 |-> 127, vIIR |-> 28912, vCOMB1 |-> 20392, vCOMB2 |-> -17184,
      vCOMB3 |-> 17680, vCOMB4 |-> -16656, vWALL |-> -19264, vAPF1 |-> 21120, vAPF2 |-> 20160,
      mLSAME |-> 2308, mRSAME |-> 1899, dLSAME |-> 1900, dRSAME |-> 1517, mLDIFF |-> 1516,
      mRDIFF |-> 1070, dLDIFF |-> 1071, dRDIFF |-> 613, mLCOMB1 |-> 2084, mRCOMB1 |-> 1631,
      mLCOMB2 |-> 1954, mRCOMB2 |-> 1558, mLCOMB3 |-> 1295, mRCOMB3 |-> 773, mLCOMB4 |-> 1122,
      mRCOMB4 |-> 695, mLAPF1 |-> 612, mRAPF1 |-> 434, mLAPF2 |-> 256, mRAPF2 |-> 128,
      vLIN |-> -32768, vRIN |-> -32768, vLOUT |-> -32768, vROUT |-> -32768, work_size |-> 18496,
      name |-> "Studio M" ],
    [
      dAPF1 |-> 227, dAPF2 |-> 169, vIIR |-> 28512, vCOMB1 |-> 20392, vCOMB2 |-> -17184,
      vCOMB3 |-> 17680, vCOMB4 |-> -16656, vWALL |-> -22912, vAPF1 |-> 22144, vAPF2 |-> 21184,
      mLSAME |-> 3579, mRSAME |-> 2904, dLSAME |-> 2905, dRSAME |-> 2266, mLDIFF |-> 2265,
      mRDIFF |-> 1513, dLDIFF |-> 1514, dRDIFF |-> 797, mLCOMB1 |-> 3337, mRCOMB1 |-> 2620,
      mLCOMB2 |-> 3033, mRCOMB2 |-> 2419, mLCOMB3 |-> 2028, mRCOMB3 |-> 1200, mLCOMB4 |-> 1775,
      mRCOMB4 |-> 978, mLAPF1 |-> 796, mRAPF1 |-> 568, mLAPF2 |-> 340, mRAPF2 |-> 170,
      vLIN |-> -32768, vRIN |-> -32768, vLOUT |-> -32768, vROUT |-> -32768, work_size |-> 28640,
      name |-> "Studio L" ],
    [
      dAPF1 |-> 421, dAPF2 |-> 313, vIIR |-> 24576, vCOMB1 |-> 20480, vCOMB2 |-> 19456,
      vCOMB3 |-> -18432, vCOMB4 |-> -17408, vWALL |-> -16384, vAPF1 |-> 24576, vAPF2 |-> 23552,
      mLSAME |-> 5562, mRSAME |-> 4539, dLSAME |-> 4544, dRSAME |-> 3523, mLDIFF |-> 3520,
      mRDIFF |-> 2497, dLDIFF |-> 2498, dRDIFF |-> 1473, mLCOMB1 |-> 5314, mRCOMB1 |-> 4285,
      mLCOMB2 |-> 4540, mRCOMB2 |-> 3521, mLCOMB3 |-> 3012, mRCOMB3 |-> 1985, mLCOMB4 |-> 2560,
      mRCOMB4 |-> 1741, mLAPF1 |-> 1472, mRAPF1 |-> 1050, mLAPF2 |-> 628, mRAPF2 |-> 314,
      vLIN |-> -32768, vRIN |-> -32768, vLOUT |-> -32768, vROUT |-> -32768, work_size |-> 44512,
      name |-> "Hall" ],
    [
      dAPF1 |-> 829, dAPF2 |-> 561, vIIR |-> 32256, vCOMB1 |-> 20480, vCOMB2 |-> -19456,
      vCOMB3 |-> -20480, vCOMB4 |-> 19456, vWALL |-> -20480, vAPF1 |-> 24576, vAPF2 |-> 21504,
      mLSAME |-> 7894, mRSAME |-> 6705, dLSAME |-> 6706, dRSAME |-> 5615, mLDIFF |-> 5614,
      mRDIFF |-> 4181, dLDIFF |-> 4182, dRDIFF |-> 2785, mLCOMB1 |-> 7444, mRCOMB1 |-> 6203,
      mLCOMB2 |-> 7106, mRCOMB2 |-> 5810, mLCOMB3 |-> 4916, mRCOMB3 |-> 3885, mLCOMB4 |-> 4598,
      mRCOMB4 |-> 3165, mLAPF1 |-> 2784, mRAPF1 |-> 1954, mLAPF2 |-> 1124, mRAPF2 |-> 562,
      vLIN |-> -32768, vRIN |-> -32768, vLOUT |-> -32768, vROUT |-> -32768, work_size |-> 63168,
      name |-> "Space Echo" ]
  >>

\* g_hb_coeffs as floats (units of 2^-20)
g_hb_coeffs ==
  << -288, 0, -1539, 0, -4568, 0, -10240, 0, -19392, 0, -33024, 0, -53056, 0,
     -83712, 0, -137216, 0, -295168, 663552, -295168, 0, -137216, 0, -83712,
     0, -53056, 0, -33024, 0, -19392, 0, -10240, 0, -4568, 0, -1539, 0, -288 >>

\* g_hb_phase0: the coefficients at even indices 0, 2, ..., 38
g_hb_phase0 ==
  << -288, -1539, -4568, -10240, -19392, -33024, -53056, -83712, -137216,
     -295168, 663552, -295168, -137216, -83712, -53056, -33024, -19392,
     -10240, -4568, -1539 >>

\* g_hb_phase1: the coefficients at odd indices, all zero
\* odd taps that are not zero
g_hb_phase1_nonzero == [i \in 1..19 |-> 1024]

g_hb_phase1 == [i \in 1..19 |-> 0]

(***************************************************************************)
(* Small float helpers.                                                    *)
(***************************************************************************)
\* (float)coeff / 32768.0f, exact
coeff_to_float(coeff) == coeff * (One \div 32768)

\* clamp_f without its upper limit
clamp_f_lower_only(v, lo, hi) == IF v < lo THEN lo ELSE v

clamp_f(v, lo, hi) == IF v < lo THEN lo ELSE IF v > hi THEN hi ELSE v

abs_f(v) == IF v < 0 THEN -v ELSE v

max_f(a, b) == IF a > b THEN a ELSE b

\* one length for every preset
next_pow2_fixed(v) == 1024

\* the power of two at or below v
next_pow2_floor(v) ==
  CHOOSE p \in {2^e : e \in 0..20} : p <= v /\ 2 * p > v

next_pow2(v) ==
  LET v0 == v - 1
      v1 == BitOr(v0, v0 \div 2)
      v2 == BitOr(v1, v1 \div 4)
      v3 == BitOr(v2, v2 \div 16)
      v4 == BitOr(v3, v3 \div 256)
      v5 == BitOr(v4, v4 \div 65536)
  IN v5 + 1

(***************************************************************************)
(* Halfband 39-tap FIR.  A filter is [state, pos]; state[i + 1] is the C   *)
(* state[i].                                                               *)
(***************************************************************************)
halfband_init == [state |-> [i \in 1..HB_STATE_SIZE |-> 0], pos |-> 0]

\* the convolution loops: n taps walking back from idx
RECURSIVE Convolve(_, _, _, _, _, _)
Convolve(coeffs, state, idx, i, n, sum) ==
  IF i > n THEN sum
  ELSE LET j == BitAnd((idx + HB_STATE_SIZE - 1), HB_STATE_MASK)
       IN Convolve(coeffs, state, j, i + 1, n, sum + Mul(coeffs[i], state[j + 1]))

\* one sample pushed per call instead of two
halfband_decimate_one_push(hb, x0, x1) ==
  LET s1 == [hb.state EXCEPT ![hb.pos + 1] = x0]
      p1 == BitAnd(hb.pos + 1, HB_STATE_MASK)
  IN [hb |-> [state |-> s1, pos |-> p1],
      y |-> Convolve(g_hb_coeffs, s1, p1, 1, HB_TAPS, 0)]

halfband_decimate(hb, x0, x1) ==
  LET s1 == [hb.state EXCEPT ![hb.pos + 1] = x0]
      p1 == BitAnd(hb.pos + 1, HB_STATE_MASK)
      s2 == [s1 EXCEPT ![p1 + 1] = x1]
      p2 == BitAnd(p1 + 1, HB_STATE_MASK)
  IN [hb |-> [state |-> s2, pos |-> p2],
      y |-> Convolve(g_hb_coeffs, s2, p2, 1, HB_TAPS, 0)]

halfband_interpolate(hb, in_tick) ==
  LET s1 == [hb.state EXCEPT ![hb.pos + 1] = in_tick]
      p1 == BitAnd(hb.pos + 1, HB_STATE_MASK)
      sum0 == Convolve(g_hb_phase0, s1, p1, 1, 20, 0)
      s2 == [s1 EXCEPT ![p1 + 1] = 0]
      p2 == BitAnd(p1 + 1, HB_STATE_MASK)
      sum1 == Convolve(g_hb_phase1, s2, p2, 1, 19, 0)
  IN [hb |-> [state |-> s2, pos |-> p2],
      s0 |-> Mul(sum0, 2 * One),
      s1 |-> Mul(sum1, 2 * One)]

(***************************************************************************)
(* Work Area.  [buf, size_mask, base]; buf is the int16 array, kept as the *)
(* function of its nonzero cells (an absent index holds 0).                *)
(***************************************************************************)
EmptyBuf == [i \in {} |-> 0]

Cell(b, idx) == IF idx \in DOMAIN b THEN b[idx] ELSE 0

SetCell(b, idx, v) ==
  IF v = 0 THEN [i \in (DOMAIN b) \ {idx} |-> b[i]]
  ELSE [i \in (DOMAIN b) \cup {idx} |-> IF i = idx THEN v ELSE b[i]]

\* memset(buf, 0, n * sizeof(int16_t))
ClearCells(b, n) == [i \in {j \in DOMAIN b : j >= n} |-> b[i]]

\* the index as the signed remainder of C gives it
WrapIndex_signed_remainder(wa, offset) ==
  Sgn(wa.base + offset) * (Abs(wa.base + offset) % (wa.size_mask + 1))

\* (wa->base + offset) & wa->size_mask in uint32 arithmetic; the mask is below
\* 2^30, so the low 30 bits of the two's-complement sum decide
WrapIndex(wa, offset) ==
  BitAnd((wa.base + offset) % (1024 * One), wa.size_mask)

workarea_read_relative(wa, offset) ==
  Cell(wa.buf, WrapIndex(wa, offset)) * (One \div 32768)

workarea_write_relative(wa, offset, value) ==
  LET val_int == Sgn(value) * (Abs(value) \div (One \div 32768))
      sat == IF val_int > 32767 THEN 32767
             ELSE IF val_int < -32768 THEN -32768 ELSE val_int
  IN [wa EXCEPT !.buf = SetCell(wa.buf, WrapIndex(wa, offset), sat)]

\* the cursor advanced without the mask
workarea_advance_unmasked(wa, n) == [wa EXCEPT !.base = wa.base + n]

workarea_advance(wa, n) ==
  [wa EXCEPT !.base = BitAnd((wa.base + n) % (1024 * One), wa.size_mask)]

\* the limits of int32_t
INT32_MAX == 2147483647

\* a float argument of any magnitude: [kind |-> "num", q |-> v] is the float
\* v / 2^20 with |v * 32768| below 2^31; [kind |-> "huge_pos"] and
\* [kind |-> "huge_neg"] are the floats at or beyond +-65536, whose product
\* with 32768 no int32_t holds
Num(v) == [kind |-> "num", q |-> v]

\* (int32_t)(value * kFloatToInt16) of a float no int32_t holds is undefined:
\* the conversion instruction of x86 returns -2^31 for either sign, a
\* saturating conversion returns the limit of the sign
CastOutcomes(x) ==
  IF x.kind = "huge_pos" THEN {-INT32_MAX - 1, INT32_MAX} ELSE {-INT32_MAX - 1}

\* workarea_write_relative on a float of any magnitude; cast is the outcome
\* of the conversion when the float is huge
workarea_write_float(wa, offset, x, cast) ==
  IF x.kind = "num" THEN workarea_write_relative(wa, offset, x.q)
  ELSE [wa EXCEPT !.buf = SetCell(wa.buf, WrapIndex(wa, offset),
                                  IF cast > 32767 THEN 32767
                                  ELSE IF cast < -32768 THEN -32768 ELSE cast)]

(***************************************************************************)
(* Preset scaler and live modulation, instance engine (v2).                *)
(***************************************************************************)
v2_scale_preset(src) ==
  [ dAPF1 |-> src.dAPF1, dAPF2 |-> src.dAPF2,
    dLSAME |-> src.dLSAME, dRSAME |-> src.dRSAME,
    dLDIFF |-> src.dLDIFF, dRDIFF |-> src.dRDIFF,
    mLSAME |-> src.mLSAME, mRSAME |-> src.mRSAME,
    mLDIFF |-> src.mLDIFF, mRDIFF |-> src.mRDIFF,
    mLCOMB1 |-> src.mLCOMB1, mRCOMB1 |-> src.mRCOMB1,
    mLCOMB2 |-> src.mLCOMB2, mRCOMB2 |-> src.mRCOMB2,
    mLCOMB3 |-> src.mLCOMB3, mRCOMB3 |-> src.mRCOMB3,
    mLCOMB4 |-> src.mLCOMB4, mRCOMB4 |-> src.mRCOMB4,
    mLAPF1 |-> src.mLAPF1, mRAPF1 |-> src.mRAPF1,
    mLAPF2 |-> src.mLAPF2, mRAPF2 |-> src.mRAPF2,
    vIIR_f |-> coeff_to_float(src.vIIR),
    vCOMB1_f |-> coeff_to_float(src.vCOMB1),
    vCOMB2_f |-> coeff_to_float(src.vCOMB2),
    vCOMB3_f |-> coeff_to_float(src.vCOMB3),
    vCOMB4_f |-> coeff_to_float(src.vCOMB4),
    vWALL_f |-> coeff_to_float(src.vWALL),
    vAPF1_f |-> coeff_to_float(src.vAPF1),
    vAPF2_f |-> coeff_to_float(src.vAPF2),
    vLIN_f |-> coeff_to_float(src.vLIN),
    vRIN_f |-> coeff_to_float(src.vRIN),
    vLOUT_f |-> coeff_to_float(src.vLOUT),
    vROUT_f |-> coeff_to_float(src.vROUT) ]

\* a scaled_preset_t of a calloc'ed instance
ZeroScaled ==
  [ f \in {"dAPF1", "dAPF2", "dLSAME", "dRSAME", "dLDIFF", "dRDIFF",
           "mLSAME", "mRSAME", "mLDIFF", "mRDIFF", "mLCOMB1", "mRCOMB1",
           "mLCOMB2", "mRCOMB2", "mLCOMB3", "mRCOMB3", "mLCOMB4", "mRCOMB4",
           "mLAPF1", "mRAPF1", "mLAPF2", "mRAPF2", "vIIR_f", "vCOMB1_f",
           "vCOMB2_f", "vCOMB3_f", "vCOMB4_f", "vWALL_f", "vAPF1_f",
           "vAPF2_f", "vLIN_f", "vRIN_f", "vLOUT_f", "vROUT_f"} |-> 0 ]

\* v2_update_decay scaling over 0x..2x, the range of the input gain
v2_update_decay_double(i) ==
  [i EXCEPT !.current.vWALL_f = Mul(i.base.vWALL_f, Mul(i.decay, 2 * One))]

v2_update_decay(i) ==
  [i EXCEPT !.current.vWALL_f = Mul(i.base.vWALL_f, i.decay)]

\* the input gain scaled into base, current copied from it
v2_update_input_gain_in_base(i) ==
  [i EXCEPT !.base.vLIN_f = Mul(i.base.vLIN_f, Mul(i.input_gain, 2 * One)),
            !.base.vRIN_f = Mul(i.base.vRIN_f, Mul(i.input_gain, 2 * One)),
            !.current.vLIN_f = Mul(i.base.vLIN_f, Mul(i.input_gain, 2 * One)),
            !.current.vRIN_f = Mul(i.base.vRIN_f, Mul(i.input_gain, 2 * One))]

\* current.vLIN/vRIN from input_gain (v2_apply_preset, v2_set_param)
v2_update_input_gain(i) ==
  LET in_scale == Mul(i.input_gain, 2 * One)
  IN [i EXCEPT !.current.vLIN_f = Mul(i.base.vLIN_f, in_scale),
               !.current.vRIN_f = Mul(i.base.vRIN_f, in_scale)]

\* the reverb level applied to the input volumes as well
v2_update_reverb_level_and_input(i) ==
  [i EXCEPT !.current.vLOUT_f = Mul(i.base.vLOUT_f, Mul(i.reverb_level, 4 * One)),
            !.current.vROUT_f = Mul(i.base.vROUT_f, Mul(i.reverb_level, 4 * One)),
            !.current.vLIN_f = Mul(i.base.vLIN_f, Mul(i.reverb_level, 4 * One)),
            !.current.vRIN_f = Mul(i.base.vRIN_f, Mul(i.reverb_level, 4 * One))]

\* current.vLOUT/vROUT from reverb_level (v2_apply_preset, v2_set_param)
v2_update_reverb_level(i) ==
  LET out_scale == Mul(i.reverb_level, 4 * One)
  IN [i EXCEPT !.current.vLOUT_f = Mul(i.base.vLOUT_f, out_scale),
               !.current.vROUT_f = Mul(i.base.vROUT_f, out_scale)]

v2_apply_preset(i, idx) ==
  IF idx < 0 \/ idx >= 6 THEN i
  ELSE LET p == g_presets[idx + 1]
           b == v2_scale_preset(p)
           i1 == [i EXCEPT !.preset_idx = idx, !.base = b, !.current = b]
           i2 == v2_update_decay(v2_update_reverb_level(v2_update_input_gain(i1)))
           ws == next_pow2(p.work_size)
           work_size == IF ws > WORK_MAX_SIZE THEN WORK_MAX_SIZE ELSE ws
       IN [i2 EXCEPT !.work = [buf |-> ClearCells(i.work.buf, work_size),
                               size_mask |-> work_size - 1,
                               base |-> 0]]

v2_create_instance ==
  LET z == [ preset_idx |-> 4, decay |-> F08, mix |-> F035,
             input_gain |-> F05, reverb_level |-> F05,
             current |-> ZeroScaled, base |-> ZeroScaled,
             work |-> [buf |-> EmptyBuf, size_mask |-> 0, base |-> 0],
             down_l |-> halfband_init, down_r |-> halfband_init,
             up_l |-> halfband_init, up_r |-> halfband_init ]
  IN v2_apply_preset(z, z.preset_idx)

(***************************************************************************)
(* Preset scaler and live modulation, legacy global engine (v1).  The      *)
(* globals g_preset_idx, g_decay, g_base, g_current, g_work, ... are the    *)
(* fields of the record g, named as the fields of the instance are.        *)
(***************************************************************************)
scale_preset(src) == v2_scale_preset(src)

update_decay(g, norm_decay) ==
  LET base == max_f(F1em5, abs_f(g.base.vWALL_f))
      max_scale == clamp_f(Div(F099, base), F05, 10 * One)
      min_scale == F05
      mid_scale == One
      mid_norm == F05
      wall_scale ==
        IF norm_decay <= mid_norm
        THEN LET t == Div(norm_decay, mid_norm)
             IN min_scale + Mul(t, mid_scale - min_scale)
        ELSE LET t == Div(norm_decay - mid_norm, One - mid_norm)
             IN mid_scale + Mul(t, max_scale - mid_scale)
      target == Mul(g.base.vWALL_f, wall_scale)
  IN [g EXCEPT !.current.vWALL_f = clamp_f(target, -F0995, F0995)]

update_input_gain(g, gain) ==
  LET gain_scale == Mul(gain, 2 * One)
  IN [g EXCEPT !.current.vLIN_f = Mul(g.base.vLIN_f, gain_scale),
               !.current.vRIN_f = Mul(g.base.vRIN_f, gain_scale)]

update_reverb_level(g, level) ==
  LET level_scale == Mul(level, 4 * One)
  IN [g EXCEPT !.current.vLOUT_f = Mul(g.base.vLOUT_f, level_scale),
               !.current.vROUT_f = Mul(g.base.vROUT_f, level_scale)]

workarea_init(wa, size_pow2) ==
  [buf |-> ClearCells(wa.buf, size_pow2), size_mask |-> size_pow2 - 1, base |-> 0]

apply_preset(g, idx0) ==
  LET idx == IF idx0 < 0 THEN 0 ELSE IF idx0 > 5 THEN 5 ELSE idx0
      src == g_presets[idx + 1]
      b == scale_preset(src)
      ws == next_pow2(src.work_size \div 2)
      work_size == IF ws > WORK_MAX_SIZE THEN WORK_MAX_SIZE ELSE ws
      g1 == [g EXCEPT !.preset_idx = idx, !.base = b, !.current = b,
                      !.work = workarea_init(g.work, work_size)]
  IN update_reverb_level(update_input_gain(update_decay(g1, g1.decay), g1.input_gain),
                         g1.reverb_level)

(***************************************************************************)
(* Reverb engine: one low-rate tick of v2_process_block on the frame pair  *)
(* (l0, r0), (l1, r1) of int16 samples.                                    *)
(***************************************************************************)
\* (int16_t)(final * 32767.0f) for final in [-1, 1]: truncation toward zero
SampleOut(final) ==
  LET fh == Abs(final) \div 1024
      fl == Abs(final) % 1024
  IN Sgn(final) * ((fh * 32767 + (fl * 32767) \div 1024) \div 1024)

\* the sample read as an unsigned 16-bit value
SampleIn_unsigned(s) == (s + 32768) * (One \div 65536)

\* audio_inout[k] / 32768.0f
SampleIn(s) == s * (One \div 32768)

\* dry and wet weights exchanged
MixOut_swapped(dry, wet, mix) ==
  clamp_f(Mul(dry, mix) + Mul(wet, One - mix), -One, One)

\* the crossfade without its clamp
MixOut_unclamped(dry, wet, mix) == Mul(dry, One - mix) + Mul(wet, mix)

\* clamp_f(in * dry_mix + out * wet_mix, -1, 1)
MixOut(dry, wet, mix) ==
  LET dry_mix == One - mix
      wet_mix == mix
  IN clamp_f(Mul(dry, dry_mix) + Mul(wet, wet_mix), -One, One)

\* one-pole reflection: read feedback and history, write the new value
Reflect(wa, p, xin, d, m) ==
  LET fb == workarea_read_relative(wa, d)
      iir == workarea_read_relative(wa, m - 1)
      out == Mul(xin + Mul(fb, p.vWALL_f) - iir, p.vIIR_f) + iir
  IN workarea_write_relative(wa, m, out)

\* the different-side reflections fed from their own side
Reflections_own_side(wa, p, Lin, Rin) ==
  LET w1 == Reflect(wa, p, Lin, p.dLSAME, p.mLSAME)
      w2 == Reflect(w1, p, Rin, p.dRSAME, p.mRSAME)
      w3 == Reflect(w2, p, Lin, p.dLDIFF, p.mLDIFF)
  IN Reflect(w3, p, Rin, p.dRDIFF, p.mRDIFF)

\* same-side then different-side reflections of both channels
Reflections(wa, p, Lin, Rin) ==
  LET w1 == Reflect(wa, p, Lin, p.dLSAME, p.mLSAME)
      w2 == Reflect(w1, p, Rin, p.dRSAME, p.mRSAME)
      w3 == Reflect(w2, p, Lin, p.dRDIFF, p.mLDIFF)
  IN Reflect(w3, p, Rin, p.dLDIFF, p.mRDIFF)

\* the comb bank with the volume of comb 1 on comb 3
Comb_third_sounds(wa, p, m1, m2, m3, m4) ==
  Mul(p.vCOMB1_f, workarea_read_relative(wa, m1)) +
  Mul(p.vCOMB2_f, workarea_read_relative(wa, m2)) +
  Mul(p.vCOMB1_f, workarea_read_relative(wa, m3)) +
  Mul(p.vCOMB4_f, workarea_read_relative(wa, m4))

\* the comb bank of one channel
Comb(wa, p, m1, m2, m3, m4) ==
  Mul(p.vCOMB1_f, workarea_read_relative(wa, m1)) +
  Mul(p.vCOMB2_f, workarea_read_relative(wa, m2)) +
  Mul(p.vCOMB3_f, workarea_read_relative(wa, m3)) +
  Mul(p.vCOMB4_f, workarea_read_relative(wa, m4))

\* Lout and Rout of the comb banks, with the Work Area: [wa, L, R]
CombBank(wa, p) ==
  [wa |-> wa,
   L |-> Comb(wa, p, p.mLCOMB1, p.mLCOMB2, p.mLCOMB3, p.mLCOMB4),
   R |-> Comb(wa, p, p.mRCOMB1, p.mRCOMB2, p.mRCOMB3, p.mRCOMB4)]

\* one all-pass stage on Lout
AllpassL(b, v, m, d) ==
  LET del == workarea_read_relative(b.wa, m - d)
      x1 == b.L - Mul(v, del)
  IN [wa |-> workarea_write_relative(b.wa, m, x1), L |-> Mul(x1, v) + del, R |-> b.R]

\* one all-pass stage on Rout
AllpassR(b, v, m, d) ==
  LET del == workarea_read_relative(b.wa, m - d)
      x1 == b.R - Mul(v, del)
  IN [wa |-> workarea_write_relative(b.wa, m, x1), L |-> b.L, R |-> Mul(x1, v) + del]

\* reflections, comb banks and the two all-pass filters of one tick
ReverbCore(wa, p, Lin, Rin) ==
  AllpassR(
    AllpassL(
      AllpassR(
        AllpassL(CombBank(Reflections(wa, p, Lin, Rin), p),
                 p.vAPF1_f, p.mLAPF1, p.dAPF1),
        p.vAPF1_f, p.mRAPF1, p.dAPF1),
      p.vAPF2_f, p.mLAPF2, p.dAPF2),
    p.vAPF2_f, p.mRAPF2, p.dAPF2)

\* end of a tick: advance the Work Area, mix and write the four samples;
\* x is the four inputs as floats, dl, dr, ul, ur the resampler results
TickMix(i, x, dl, dr, wa, ul, ur) ==
  [inst |-> [i EXCEPT !.work = workarea_advance(wa, 1),
                      !.down_l = dl.hb, !.down_r = dr.hb,
                      !.up_l = ul.hb, !.up_r = ur.hb],
   out |-> <<SampleOut(MixOut(x[1], ul.s0, i.mix)), SampleOut(MixOut(x[2], ur.s0, i.mix)),
             SampleOut(MixOut(x[3], ul.s1, i.mix)), SampleOut(MixOut(x[4], ur.s1, i.mix))>>]

\* upsample Lout * vLOUT and Rout * vROUT
TickUp(i, x, dl, dr, b) ==
  TickMix(i, x, dl, dr, b.wa,
          halfband_interpolate(i.up_l, Mul(b.L, i.current.vLOUT_f)),
          halfband_interpolate(i.up_r, Mul(b.R, i.current.vROUT_f)))

\* the input of the network scaled by the mix as well
TickCore_wet_input(i, x, dl, dr) ==
  TickUp(i, x, dl, dr,
         ReverbCore(i.work, i.current,
                    Mul(Mul(dl.y, i.current.vLIN_f), i.mix),
                    Mul(Mul(dr.y, i.current.vRIN_f), i.mix)))

\* the reverb at the low rate on Lin = dl * vLIN, Rin = dr * vRIN
TickCore(i, x, dl, dr) ==
  TickUp(i, x, dl, dr,
         ReverbCore(i.work, i.current,
                    Mul(dl.y, i.current.vLIN_f), Mul(dr.y, i.current.vRIN_f)))

\* downsample the two input frames
TickDown(i, x) ==
  TickCore(i, x,
           halfband_decimate(i.down_l, x[1], x[3]),
           halfband_decimate(i.down_r, x[2], x[4]))

\* one low-rate tick: [inst, out], out the four output samples
Tick(i, l0, r0, l1, r1) ==
  TickDown(i, <<SampleIn(l0), SampleIn(r0), SampleIn(l1), SampleIn(r1)>>)

\* the loop of v2_process_block from frame k on; a is audio_inout
\* (a[k + 1] is the C audio_inout[k])
RECURSIVE ProcessFrom(_, _, _, _)

\* store the outputs of tick t and go on with the next frame pair
ProcessStep(t, a, frames, k) ==
  ProcessFrom(t.inst,
              [a EXCEPT ![k * 2 + 1] = t.out[1], ![k * 2 + 2] = t.out[2],
                        ![(k + 1) * 2 + 1] = t.out[3], ![(k + 1) * 2 + 2] = t.out[4]],
              frames, k + 2)

ProcessFrom(i, a, frames, k) ==
  IF k >= frames \/ k + 1 >= frames THEN [inst |-> i, audio |-> a]
  ELSE ProcessStep(Tick(i, a[k * 2 + 1], a[k * 2 + 2], a[(k + 1) * 2 + 1],
                        a[(k + 1) * 2 + 2]),
                   a, frames, k)

\* the unpaired frame of an odd block consumed: silenced, the cursor advanced
v2_process_block_tail_counted(i, a, frames) ==
  IF frames % 2 = 0 THEN ProcessFrom(i, a, frames, 0)
  ELSE LET r == ProcessFrom(i, a, frames, 0)
       IN [r EXCEPT !.audio[2 * frames - 1] = 0, !.audio[2 * frames] = 0,
                    !.inst.work = workarea_advance(r.inst.work, 1)]

\* the loop, and the stored mix set to the level of the last output
v2_process_block_mix_follows(i, a, frames) ==
  IF frames < 2 THEN ProcessFrom(i, a, frames, 0)
  ELSE [ProcessFrom(i, a, frames, 0) EXCEPT !.inst.mix = One]

v2_process_block(i, a, frames) == ProcessFrom(i, a, frames, 0)

(***************************************************************************)
(* fx_process_block of the legacy global engine (v1), on the record g of   *)
(* its globals.                                                            *)
(***************************************************************************)
\* same-side reflection: L -> L, R -> R
fx_same_side(wa, p, Lin, Rin) ==
  LET lsame_fb == workarea_read_relative(wa, p.dLSAME)
      lsame_iir == workarea_read_relative(wa, p.mLSAME - 1)
      lsame_out == Mul(Lin + Mul(lsame_fb, p.vWALL_f) - lsame_iir, p.vIIR_f) + lsame_iir
      w == workarea_write_relative(wa, p.mLSAME, lsame_out)
      rsame_fb == workarea_read_relative(w, p.dRSAME)
      rsame_iir == workarea_read_relative(w, p.mRSAME - 1)
      rsame_out == Mul(Rin + Mul(rsame_fb, p.vWALL_f) - rsame_iir, p.vIIR_f) + rsame_iir
  IN workarea_write_relative(w, p.mRSAME, rsame_out)

\* different-side reflection: L -> R, R -> L
fx_diff_side(wa, p, Lin, Rin) ==
  LET ldiff_fb == workarea_read_relative(wa, p.dRDIFF)
      ldiff_iir == workarea_read_relative(wa, p.mLDIFF - 1)
      ldiff_out == Mul(Lin + Mul(ldiff_fb, p.vWALL_f) - ldiff_iir, p.vIIR_f) + ldiff_iir
      w == workarea_write_relative(wa, p.mLDIFF, ldiff_out)
      rdiff_fb == workarea_read_relative(w, p.dLDIFF)
      rdiff_iir == workarea_read_relative(w, p.mRDIFF - 1)
      rdiff_out == Mul(Rin + Mul(rdiff_fb, p.vWALL_f) - rdiff_iir, p.vIIR_f) + rdiff_iir
  IN workarea_write_relative(w, p.mRDIFF, rdiff_out)

\* early echo: Lout and Rout of the comb filter bank
fx_comb(wa, p) ==
  [wa |-> wa,
   Lout |-> Mul(p.vCOMB1_f, workarea_read_relative(wa, p.mLCOMB1)) +
            Mul(p.vCOMB2_f, workarea_read_relative(wa, p.mLCOMB2)) +
            Mul(p.vCOMB3_f, workarea_read_relative(wa, p.mLCOMB3)) +
            Mul(p.vCOMB4_f, workarea_read_relative(wa, p.mLCOMB4)),
   Rout |-> Mul(p.vCOMB1_f, workarea_read_relative(wa, p.mRCOMB1)) +
            Mul(p.vCOMB2_f, workarea_read_relative(wa, p.mRCOMB2)) +
            Mul(p.vCOMB3_f, workarea_read_relative(wa, p.mRCOMB3)) +
            Mul(p.vCOMB4_f, workarea_read_relative(wa, p.mRCOMB4))]

\* late reverb: all-pass filter 1 on Lout, then on Rout
fx_apf1(c, p) ==
  LET lapf1_del == workarea_read_relative(c.wa, p.mLAPF1 - p.dAPF1)
      L1 == c.Lout - Mul(p.vAPF1_f, lapf1_del)
      w == workarea_write_relative(c.wa, p.mLAPF1, L1)
      rapf1_del == workarea_read_relative(w, p.mRAPF1 - p.dAPF1)
      R1 == c.Rout - Mul(p.vAPF1_f, rapf1_del)
  IN [wa |-> workarea_write_relative(w, p.mRAPF1, R1),
      Lout |-> Mul(L1, p.vAPF1_f) + lapf1_del,
      Rout |-> Mul(R1, p.vAPF1_f) + rapf1_del]

\* late reverb: all-pass filter 2
fx_apf2(c, p) ==
  LET lapf2_del == workarea_read_relative(c.wa, p.mLAPF2 - p.dAPF2)
      L1 == c.Lout - Mul(p.vAPF2_f, lapf2_del)
      w == workarea_write_relative(c.wa, p.mLAPF2, L1)
      rapf2_del == workarea_read_relative(w, p.mRAPF2 - p.dAPF2)
      R1 == c.Rout - Mul(p.vAPF2_f, rapf2_del)
  IN [wa |-> workarea_write_relative(w, p.mRAPF2, R1),
      Lout |-> Mul(L1, p.vAPF2_f) + lapf2_del,
      Rout |-> Mul(R1, p.vAPF2_f) + rapf2_del]

\* if (final > 1.0f) final = 1.0f; if (final < -1.0f) final = -1.0f;
\* then (int16_t)(final * 32767.0f)
fx_final(dry, wet, g_mix) ==
  LET final == Mul(dry, One - g_mix) + Mul(wet, g_mix)
      top == IF final > One THEN One ELSE final
  IN SampleOut(IF top < -One THEN -One ELSE top)

\* advance, upsample, mix dry and wet, clamp and convert
fx_tick_out(g, x, dl, dr, c, ul, ur) ==
  [g |-> [g EXCEPT !.work = workarea_advance(c.wa, 1),
                   !.down_l = dl.hb, !.down_r = dr.hb,
                   !.up_l = ul.hb, !.up_r = ur.hb],
   out |-> <<fx_final(x[1], ul.s0, g.mix), fx_final(x[2], ur.s0, g.mix),
             fx_final(x[3], ul.s1, g.mix), fx_final(x[4], ur.s1, g.mix)>>]

fx_tick_up(g, x, dl, dr, c) ==
  fx_tick_out(g, x, dl, dr, c,
              halfband_interpolate(g.up_l, Mul(c.Lout, g.current.vLOUT_f)),
              halfband_interpolate(g.up_r, Mul(c.Rout, g.current.vROUT_f)))

fx_tick_core(g, x, dl, dr) ==
  fx_tick_up(g, x, dl, dr,
    fx_apf2(fx_apf1(fx_comb(fx_diff_side(fx_same_side(g.work, g.current,
                                                      Mul(dl.y, g.current.vLIN_f),
                                                      Mul(dr.y, g.current.vRIN_f)),
                                         g.current,
                                         Mul(dl.y, g.current.vLIN_f),
                                         Mul(dr.y, g.current.vRIN_f)),
                            g.current),
                    g.current),
            g.current))

\* the decimators fed with each other's channel
fx_tick_channels_swapped(g, x) ==
  fx_tick_core(g, x, halfband_decimate(g.down_l, x[2], x[4]),
               halfband_decimate(g.down_r, x[1], x[3]))

\* one iteration of the loop on the float inputs x = in_l0, in_r0, in_l1, in_r1
fx_tick(g, x) ==
  fx_tick_core(g, x, halfband_decimate(g.down_l, x[1], x[3]),
               halfband_decimate(g.down_r, x[2], x[4]))

\* the loop of fx_process_block from frame k on
RECURSIVE fx_process_from(_, _, _, _)

fx_store(t, a, frames, k) ==
  fx_process_from(t.g,
                  [a EXCEPT ![k * 2 + 1] = t.out[1], ![k * 2 + 2] = t.out[2],
                            ![(k + 1) * 2 + 1] = t.out[3], ![(k + 1) * 2 + 2] = t.out[4]],
                  frames, k + 2)

fx_process_from(g, a, frames, k) ==
  IF k >= frames \/ k + 1 >= frames THEN [g |-> g, audio |-> a]
  ELSE fx_store(fx_tick(g, <<SampleIn(a[k * 2 + 1]), SampleIn(a[k * 2 + 2]),
                             SampleIn(a[(k + 1) * 2 + 1]), SampleIn(a[(k + 1) * 2 + 2])>>),
                a, frames, k)

fx_process_block(g, a, frames) == fx_process_from(g, a, frames, 0)

(***************************************************************************)
(* Parameter surface, instance engine (v2).  A "state" value is a JSON     *)
(* object: a function from the keys present to decimal numbers.            *)
(***************************************************************************)
\* json_get_number: found (0) or not (-1), and the float read
json_has(json, key) == key \in DOMAIN json

json_get_number(json, key) == Atof(json[key])

v2_set_state(i, val) ==
  LET idx == IF json_has(val, "preset")
             THEN FloatToInt(json_get_number(val, "preset")) ELSE -1
      preset_changed == json_has(val, "preset") /\ idx >= 0 /\ idx < 6 /\ idx # i.preset_idx
      i1 == IF preset_changed THEN [i EXCEPT !.preset_idx = idx] ELSE i
      i2 == IF json_has(val, "decay")
            THEN [i1 EXCEPT !.decay = clamp_f(json_get_number(val, "decay"), 0, One)]
            ELSE i1
      i3 == IF json_has(val, "mix")
            THEN [i2 EXCEPT !.mix = clamp_f(json_get_number(val, "mix"), 0, One)]
            ELSE i2
      i4 == IF json_has(val, "input_gain")
            THEN [i3 EXCEPT !.input_gain = clamp_f(json_get_number(val, "input_gain"), 0, One)]
            ELSE i3
      i5 == IF json_has(val, "reverb_level")
            THEN [i4 EXCEPT !.reverb_level = clamp_f(json_get_number(val, "reverb_level"), 0, One)]
            ELSE i4
  IN IF preset_changed THEN v2_apply_preset(i5, i5.preset_idx)
     ELSE v2_update_reverb_level(v2_update_input_gain(v2_update_decay(i5)))

\* v2_set_param taking the legacy key "level" for reverb_level
v2_set_param_level_alias(i, key, val) ==
  IF key = "state" THEN v2_set_state(i, val)
  ELSE IF key = "preset" THEN
    LET idx == Atoi(val)
    IN IF idx >= 0 /\ idx < 6 THEN v2_apply_preset(i, idx) ELSE i
  ELSE IF key = "decay" THEN
    v2_update_decay([i EXCEPT !.decay = clamp_f(Atof(val), 0, One)])
  ELSE IF key = "mix" THEN
    [i EXCEPT !.mix = clamp_f(Atof(val), 0, One)]
  ELSE IF key = "input_gain" THEN
    v2_update_input_gain([i EXCEPT !.input_gain = clamp_f(Atof(val), 0, One)])
  ELSE IF key = "reverb_level" \/ key = "level" THEN
    v2_update_reverb_level([i EXCEPT !.reverb_level = clamp_f(Atof(val), 0, One)])
  ELSE i

v2_set_param(i, key, val) ==
  IF key = "state" THEN v2_set_state(i, val)
  ELSE IF key = "preset" THEN
    LET idx == Atoi(val)
    IN IF idx >= 0 /\ idx < 6 THEN v2_apply_preset(i, idx) ELSE i
  ELSE IF key = "decay" THEN
    v2_update_decay([i EXCEPT !.decay = clamp_f(Atof(val), 0, One)])
  ELSE IF key = "mix" THEN
    [i EXCEPT !.mix = clamp_f(Atof(val), 0, One)]
  ELSE IF key = "input_gain" THEN
    v2_update_input_gain([i EXCEPT !.input_gain = clamp_f(Atof(val), 0, One)])
  ELSE IF key = "reverb_level" THEN
    v2_update_reverb_level([i EXCEPT !.reverb_level = clamp_f(Atof(val), 0, One)])
  ELSE i

\* the state object get_param("state") prints
StateJson(i) ==
  [ k \in {"preset", "decay", "mix", "input_gain", "reverb_level"} |->
      IF k = "preset" THEN FmtD(i.preset_idx)
      ELSE IF k = "decay" THEN Fmt4(i.decay)
      ELSE IF k = "mix" THEN Fmt4(i.mix)
      ELSE IF k = "input_gain" THEN Fmt4(i.input_gain)
      ELSE Fmt4(i.reverb_level) ]

\* characters of "%.Nf" for a value printed as the decimal d / 10^n
FloatLen(d, n, pow) == (IF d < 0 THEN 1 ELSE 0) + Digits(Abs(d) \div pow) + 1 + n

\* strlen of the two constant JSON strings of v2_get_param
UiHierarchyLen == 287

ChainParamsLen == 331

\* v2_get_param: [ret, wrote, text]; text is what snprintf formats when the
\* buffer is written; at most buf_len - 1 characters of it reach the buffer
v2_get_param(i, key, buf_len) ==
  IF buf_len <= 0 THEN [ret |-> -1, wrote |-> FALSE, text |-> <<"none">>]
  ELSE IF key = "preset" THEN
    [wrote |-> TRUE, ret |-> Digits(i.preset_idx), text |-> <<"d", i.preset_idx>>]
  ELSE IF key = "preset_name" THEN
    [wrote |-> TRUE, ret |-> Len(g_presets[i.preset_idx + 1].name),
     text |-> <<"s", g_presets[i.preset_idx + 1].name>>]
  ELSE IF key = "preset_count" THEN [wrote |-> TRUE, ret |-> 1, text |-> <<"s", "6">>]
  ELSE IF key = "decay" THEN
    [wrote |-> TRUE, ret |-> FloatLen(Fmt2(i.decay), 2, 100), text |-> <<"f2", Fmt2(i.decay)>>]
  ELSE IF key = "mix" THEN
    [wrote |-> TRUE, ret |-> FloatLen(Fmt2(i.mix), 2, 100), text |-> <<"f2", Fmt2(i.mix)>>]
  ELSE IF key = "input_gain" THEN
    [wrote |-> TRUE, ret |-> FloatLen(Fmt2(i.input_gain), 2, 100), text |-> <<"f2", Fmt2(i.input_gain)>>]
  ELSE IF key = "reverb_level" THEN
    [wrote |-> TRUE, ret |-> FloatLen(Fmt2(i.reverb_level), 2, 100),
     text |-> <<"f2", Fmt2(i.reverb_level)>>]
  ELSE IF key = "name" THEN [wrote |-> TRUE, ret |-> 8, text |-> <<"s", "PSX Verb">>]
  ELSE IF key = "state" THEN
    LET j == StateJson(i)
    IN [wrote |-> TRUE, ret |-> 57 + Digits(i.preset_idx) + FloatLen(j["decay"], 4, 10000)
                  + FloatLen(j["mix"], 4, 10000) + FloatLen(j["input_gain"], 4, 10000)
                  + FloatLen(j["reverb_level"], 4, 10000),
        text |-> <<"json", j>>]
  ELSE IF key = "ui_hierarchy" THEN
    IF UiHierarchyLen < buf_len
    THEN [wrote |-> TRUE, ret |-> UiHierarchyLen, text |-> <<"s", "ui_hierarchy">>]
    ELSE [ret |-> -1, wrote |-> FALSE, text |-> <<"none">>]
  ELSE IF key = "chain_params" THEN
    IF ChainParamsLen < buf_len
    THEN [wrote |-> TRUE, ret |-> ChainParamsLen, text |-> <<"s", "chain_params">>]
    ELSE [ret |-> -1, wrote |-> FALSE, text |-> <<"none">>]
  ELSE [ret |-> -1, wrote |-> FALSE, text |-> <<"none">>]

(***************************************************************************)
(* Inputs of the model.                                                    *)
(***************************************************************************)
\* set_param values per key, as decimal strings d / 10^4
PresetVals == {-10000, 0, 10000, 30000, 50000, 70000}

ControlVals == {-2500, 5000, 12500}

ControlKeys == {"decay", "mix", "input_gain", "reverb_level"}

UnknownKeys == {"level"}

\* JSON state objects: any subset of the keys
StateObjs ==
  { [preset |-> 20000],
    [preset |-> 40000, decay |-> 2500],
    [preset |-> 90000, mix |-> 0],
    [preset |-> -10000, reverb_level |-> 10000],
    [decay |-> 10000, input_gain |-> 12500],
    [preset |-> 0, decay |-> 3333, mix |-> 6667, input_gain |-> 1, reverb_level |-> 9999] }

\* audio blocks: interleaved int16 stereo frames
Blocks ==
  { <<0, 0, 0, 0>>,
    <<-32768, 12345, 32767, -1>>,
    <<1000, -1000, 0, 0, 77, -77>>,
    <<-32768, 32767>> }

(***************************************************************************)
(* The state machine: one live instance, driven by the host.               *)
(***************************************************************************)
\* no process call is in progress
NotRunning == [active |-> FALSE]

\* the NULL pointer; allocated blocks are numbered from 1
NULL == 0

\* no block allocated: live is the set of allocated blocks, obj the instance
\* records by handle, wbuf the work_buffer pointer of each instance
EmptyHeap == [live |-> {}, obj |-> << >>, wbuf |-> << >>]

Init ==
  /\ inst = v2_create_instance
  /\ audio = << >>
  /\ ret = 0
  /\ buf = <<"none">>
  /\ op = [name |-> "create"]
  /\ nops = 0
  /\ heard = -1
  /\ run = NotRunning
  /\ heap = EmptyHeap

SetParam(key, val) ==
  /\ inst' = v2_set_param(inst, key, val)
  /\ op' = [name |-> "set_param", key |-> key, val |-> val]
  /\ nops' = nops + 1
  /\ UNCHANGED <<audio, ret, buf, heard, run, heap>>

SetState(obj) ==
  /\ inst' = v2_set_param(inst, "state", obj)
  /\ op' = [name |-> "set_state", obj |-> obj]
  /\ nops' = nops + 1
  /\ UNCHANGED <<audio, ret, buf, heard, run, heap>>

GetParam(key, buf_len) ==
  /\ LET g == v2_get_param(inst, key, buf_len)
     IN /\ ret' = g.ret
        /\ buf' = IF g.wrote THEN g.text ELSE buf
  /\ op' = [name |-> "get_param", key |-> key, buf_len |-> buf_len]
  /\ nops' = nops + 1
  /\ UNCHANGED <<inst, audio, heard, run, heap>>

ProcessBlock(block) ==
  /\ LET r == v2_process_block(inst, block, Len(block) \div 2)
     IN /\ inst' = r.inst
        /\ audio' = r.audio
  /\ op' = [name |-> "process", block |-> block]
  /\ nops' = nops + 1
  /\ UNCHANGED <<ret, buf, heard, run, heap>>

Next ==
  /\ nops < MaxOps
  /\ \/ \E v \in PresetVals : SetParam("preset", v)
     \/ \E k \in ControlKeys, v \in ControlVals : SetParam(k, v)
     \/ \E k \in UnknownKeys : SetParam(k, 5000)
     \/ \E o \in StateObjs : SetState(o)
     \/ \E b \in Blocks : ProcessBlock(b)

Spec == Init /\ [][Next]_vars

(***************************************************************************)
(* The parameter surface alone: writes and reads, no audio.                *)
(***************************************************************************)
ParamPresetVals == {-10000, 20000, 70000}

ParamControlVals == {-2500, 7500}

ParamUnknownKeys == {"level", "bogus"}

ParamStateObjs ==
  { [preset |-> 30000, mix |-> 2500],
    [decay |-> 10000, input_gain |-> 12500],
    [bogus |-> 7500] }

GetKeys ==
  {"preset", "preset_name", "preset_count", "decay", "mix", "input_gain",
   "reverb_level", "name", "state", "ui_hierarchy", "chain_params", "level", "bogus"}

BufLens == {0, 300}

NextParams ==
  /\ nops < MaxOps
  /\ \/ \E v \in ParamPresetVals : SetParam("preset", v)
     \/ \E k \in ControlKeys, v \in ParamControlVals : SetParam(k, v)
     \/ \E k \in ParamUnknownKeys : SetParam(k, 7500)
     \/ \E o \in ParamStateObjs : SetState(o)
     \/ \E k \in GetKeys, n \in BufLens : GetParam(k, n)

SpecParams == Init /\ [][NextParams]_vars

(***************************************************************************)
(* State round trip: any host call, then a write of a full state object,   *)
(* then a read of the state.                                               *)
(***************************************************************************)
RoundTripObjs ==
  [ preset : {0, 10000, 20000, 30000, 40000, 50000},
    decay : {0, 3333, 10000},
    mix : {1, 9999},
    input_gain : {5000, 6667},
    reverb_level : {2, 10000} ]

NextRoundTrip ==
  \/ /\ nops = 0
     /\ \/ \E v \in PresetVals : SetParam("preset", v)
        \/ \E k \in ControlKeys, v \in ControlVals : SetParam(k, v)
        \/ \E o \in StateObjs : SetState(o)
        \/ \E b \in Blocks : ProcessBlock(b)
  \/ /\ nops <= 1
     /\ \E x \in RoundTripObjs : SetState(x)
  \/ /\ op.name = "set_state"
     /\ GetParam("state", 4096)

SpecRoundTrip == Init /\ [][NextRoundTrip]_vars

(***************************************************************************)
(* Dry scenario: a preset, then loud audio one low-rate tick per call; the *)
(* mix is set to 0 before the first tick or once the wet path is live.     *)
(***************************************************************************)
\* the two frames fed by host call n
LoudTick(n) == <<32767 - n, 3 * n - 32768, -(97 * n), n>>

NextDry ==
  \/ /\ nops = 0
     /\ \E v \in {0, 10000} : SetParam("preset", v)
  \/ /\ nops >= 1
     /\ nops % 128 = 1
     /\ inst.mix # 0
     /\ SetParam("mix", 0)
  \/ /\ nops >= 1
     /\ nops <= MaxDryOps
     /\ ProcessBlock(LoudTick(nops))

SpecDry == Init /\ [][NextDry]_vars

(***************************************************************************)
(* Impulse scenario: mix = 1 on the fresh instance, one full-scale impulse *)
(* on the left channel, then silence, one low-rate tick per call.          *)
(***************************************************************************)
ImpulseBlocks == { <<32767, 0, 0, 0>>, <<0, 0, 32767, 0>> }

ImpulseTick(block) ==
  /\ LET r == v2_process_block(inst, block, 2)
     IN /\ inst' = r.inst
        /\ audio' = r.audio
        /\ heard' = IF heard = -1 /\ (r.audio[2] # 0 \/ r.audio[4] # 0)
                    THEN nops - 1 ELSE heard
  /\ op' = [name |-> "process", block |-> block]
  /\ nops' = nops + 1
  /\ UNCHANGED <<ret, buf, run, heap>>

NextImpulse ==
  \/ /\ nops = 0
     /\ SetParam("mix", 10000)
  \/ /\ nops = 1
     /\ \E b \in ImpulseBlocks : ImpulseTick(b)
  \/ /\ nops > 1
     /\ nops <= MaxTicks
     /\ ImpulseTick(<<0, 0, 0, 0>>)

SpecImpulse == Init /\ [][NextImpulse]_vars

(***************************************************************************)
(* Process call in progress.  The v2 entry points take no lock: a host     *)
(* thread that calls set_param while v2_process_block runs on the same     *)
(* instance races with the loop, which reads inst->current (through p),    *)
(* inst->mix and inst->work afresh in every iteration.  The loop is taken  *)
(* one iteration per step and the racing call lands between iterations,    *)
(* one of the outcomes the race can have.  Next to the loop runs its       *)
(* shadow: the same iterations on the instance as the call found it, which *)
(* no set_param call reaches.                                              *)
(***************************************************************************)
TearBlocks ==
  { <<12000, -12000, 8000, -8000, 4000, -4000, 2000, -2000>>,
    <<-32768, 32767, 0, 0, 32767, -32768, 100, 100, 5, 5>> }

TearControlVals == {0}

\* entry of v2_process_block: nothing read or written yet
BeginProcess(block) ==
  /\ ~run.active
  /\ run' = [active |-> TRUE, k |-> 0, frames |-> Len(block) \div 2,
             block |-> block, shadow |-> inst, expect |-> block]
  /\ audio' = block
  /\ UNCHANGED <<inst, ret, buf, op, nops, heard, heap>>

\* the frame pair run.k, run.k + 1 stored from the outputs of tick t
StoreTick(t) ==
  /\ inst' = t.inst
  /\ audio' = [audio EXCEPT ![run.k * 2 + 1] = t.out[1], ![run.k * 2 + 2] = t.out[2],
                            ![(run.k + 1) * 2 + 1] = t.out[3],
                            ![(run.k + 1) * 2 + 2] = t.out[4]]

\* the shadow after tick t on the frame pair run.k, run.k + 1
ShadowTick(t) ==
  [run EXCEPT !.k = run.k + 2,
              !.shadow = t.inst,
              !.expect = [run.expect EXCEPT ![run.k * 2 + 1] = t.out[1],
                                            ![run.k * 2 + 2] = t.out[2],
                                            ![(run.k + 1) * 2 + 1] = t.out[3],
                                            ![(run.k + 1) * 2 + 2] = t.out[4]]]

\* one iteration of the loop of v2_process_block
StepProcess ==
  /\ run.active
  /\ run.k + 1 < run.frames
  /\ StoreTick(Tick(inst, audio[run.k * 2 + 1], audio[run.k * 2 + 2],
                    audio[(run.k + 1) * 2 + 1], audio[(run.k + 1) * 2 + 2]))
  /\ run' = ShadowTick(Tick(run.shadow, run.block[run.k * 2 + 1], run.block[run.k * 2 + 2],
                            run.block[(run.k + 1) * 2 + 1], run.block[(run.k + 1) * 2 + 2]))
  /\ UNCHANGED <<ret, buf, op, nops, heard, heap>>

\* the loop is over: v2_process_block returns
EndProcess ==
  /\ run.active
  /\ run.k + 1 >= run.frames
  /\ run' = NotRunning
  /\ op' = [name |-> "process", block |-> run.block]
  /\ nops' = nops + 1
  /\ UNCHANGED <<inst, audio, ret, buf, heard, heap>>

NextTear ==
  \/ \E b \in TearBlocks : nops < MaxOps /\ BeginProcess(b)
  \/ StepProcess
  \/ EndProcess
  \/ nops < MaxOps /\ SetParam("preset", 0)
  \/ \E k \in ControlKeys, v \in TearControlVals : nops < MaxOps /\ SetParam(k, v)

SpecTear == Init /\ [][NextTear]_vars

(***************************************************************************)
(* Loud scenario: a preset with every control at 1 (fully wet, input gain  *)
(* 2x, reverb level 4x), then full-scale audio, one low-rate tick per      *)
(* call.                                                                   *)
(***************************************************************************)
LoudPresets == {0, 10000}

LoudState(preset) ==
  [preset |-> preset, decay |-> 10000, mix |-> 10000,
   input_gain |-> 10000, reverb_level |-> 10000]

\* the two full-scale frames fed by host call n: 16 calls up, 16 calls down
FullScaleTick(n) ==
  IF (n \div 16) % 2 = 0 THEN <<32767, -32768, 32767, -32768>>
  ELSE <<-32768, 32767, -32768, 32767>>

NextLoud ==
  \/ /\ nops = 0
     /\ \E v \in LoudPresets : SetState(LoudState(v))
  \/ /\ nops >= 1
     /\ nops <= MaxLoudOps
     /\ ProcessBlock(FullScaleTick(nops))

SpecLoud == Init /\ [][NextLoud]_vars

(***************************************************************************)
(* The halfband filters alone: the decimator down_l or the interpolator    *)
(* up_l of the instance is called on a sample pattern until its history is *)
(* full; the decimator is then called on zeros, the instance with the      *)
(* filled interpolator processes a block.                                  *)
(***************************************************************************)
HbPatterns == 0..3

\* sample j of pattern p: silence, full-scale DC, full scale alternating,
\* and a scatter over [-2, 2]
HbSample(p, j) ==
  IF p = 0 THEN 0
  ELSE IF p = 1 THEN One
  ELSE IF p = 2 THEN (IF j % 2 = 0 THEN One ELSE -One)
  ELSE ((j * j * 7919 + 12345 * j + 777) % (4 * One + 1)) - 2 * One

\* halfband_decimate(&down_l, x0, x1); zeros counts the calls on (0, 0) in a
\* row up to this one
Decimate(p, x0, x1) ==
  /\ inst' = [inst EXCEPT !.down_l = halfband_decimate(inst.down_l, x0, x1).hb]
  /\ ret' = halfband_decimate(inst.down_l, x0, x1).y
  /\ op' = [name |-> "decimate", pattern |-> p, x0 |-> x0, x1 |-> x1,
            zeros |-> IF x0 # 0 \/ x1 # 0 THEN 0
                      ELSE IF nops = 0 THEN 1 ELSE op.zeros + 1]
  /\ nops' = nops + 1
  /\ UNCHANGED <<audio, buf, heard, run, heap>>

\* halfband_interpolate(&up_l, in_tick, &s0, &s1)
Interpolate(p, in_tick) ==
  /\ inst' = [inst EXCEPT !.up_l = halfband_interpolate(inst.up_l, in_tick).hb]
  /\ ret' = halfband_interpolate(inst.up_l, in_tick).s1
  /\ op' = [name |-> "interpolate", pattern |-> p, in_tick |-> in_tick,
            s0 |-> halfband_interpolate(inst.up_l, in_tick).s0,
            s1 |-> halfband_interpolate(inst.up_l, in_tick).s1]
  /\ nops' = nops + 1
  /\ UNCHANGED <<audio, buf, heard, run, heap>>

NextHalfband ==
  \/ /\ nops = 0
     /\ \E p \in HbPatterns : Decimate(p, HbSample(p, 0), HbSample(p, 1))
  \/ /\ nops = 0
     /\ \E p \in HbPatterns : Interpolate(p, HbSample(p, 0))
  \/ /\ nops >= 1
     /\ nops < MaxFill
     /\ op.name = "decimate"
     /\ Decimate(op.pattern, HbSample(op.pattern, 2 * nops),
                 HbSample(op.pattern, 2 * nops + 1))
  \/ /\ nops >= MaxFill
     /\ nops < MaxFill + MaxZeroCalls
     /\ op.name = "decimate"
     /\ Decimate(op.pattern, 0, 0)
  \/ /\ nops >= 1
     /\ nops < MaxFill
     /\ op.name = "interpolate"
     /\ Interpolate(op.pattern, HbSample(op.pattern, nops))
  \/ /\ nops >= MaxFill
     /\ nops < MaxFill + 2
     /\ op.name \in {"interpolate", "process"}
     /\ \E b \in Blocks : ProcessBlock(b)

SpecHalfband == Init /\ [][NextHalfband]_vars

(***************************************************************************)
(* Long run: a preset, then silence processed until the cursor is two      *)
(* ticks short of a full turn of the Work Area, then blocks of several     *)
(* ticks, the loop taken one iteration per step.                           *)
(***************************************************************************)
TurnPresets == {0, 10000, 20000, 30000, 40000, 50000}

\* low-rate ticks of silence: the lengths of the Work Area less 2
TurnRuns == {8190, 16382, 32766, 65534}

TurnBlocks ==
  { <<20000, -20000, 20000, -20000, 20000, -20000, 20000, -20000>>,
    <<-32768, 32767, 0, 0, 32767, -32768, 100, 100, 5, 5>>,
    <<0, 0, 0, 0, 0, 0, 0, 0, 0, 0, 0, 0, 0, 0>>,
    <<1, 2>> }

ZeroHistory(hb) == \A k \in 1..HB_STATE_SIZE : hb.state[k] = 0

\* all-zero Work Area and four all-zero halfband histories
Silent(i) ==
  /\ \A c \in DOMAIN i.work.buf : i.work.buf[c] = 0
  /\ ZeroHistory(i.down_l) /\ ZeroHistory(i.down_r)
  /\ ZeroHistory(i.up_l) /\ ZeroHistory(i.up_r)

\* a halfband filter after n ticks: two samples pushed per tick
hb_after(hb, n) == [hb EXCEPT !.pos = BitAnd(hb.pos + 2 * n, HB_STATE_MASK)]

\* the silent instance i after v2_process_block on n ticks of zero frames:
\* every read, product and write of a tick is 0, the cursors move
silent_ticks(i, n) ==
  [i EXCEPT !.work = workarea_advance(i.work, n),
            !.down_l = hb_after(i.down_l, n), !.down_r = hb_after(i.down_r, n),
            !.up_l = hb_after(i.up_l, n), !.up_r = hb_after(i.up_r, n)]

\* process on 2 * n zero frames, the instance silent
SilentRun(n) ==
  /\ Silent(inst)
  /\ ~run.active
  /\ inst' = silent_ticks(inst, n)
  /\ audio' = <<0, 0, 0, 0>>
  /\ op' = [name |-> "silent_run", n |-> n]
  /\ nops' = nops + 1
  /\ UNCHANGED <<ret, buf, heard, run, heap>>

NextTurn ==
  \/ /\ nops = 0
     /\ \E v \in TurnPresets : SetParam("preset", v)
  \/ /\ nops = 1
     /\ \E n \in TurnRuns : n = inst.work.size_mask - 1 /\ SilentRun(n)
  \/ /\ nops >= 2
     /\ nops < MaxTurnOps
     /\ ~run.active
     /\ \/ \E b \in TurnBlocks : BeginProcess(b)
        \/ \E b \in Blocks : ProcessBlock(b)
        \/ \E k \in ControlKeys : SetParam(k, 10000)
        \/ SetParam("preset", 0)
  \/ StepProcess
  \/ EndProcess

SpecTurn == Init /\ [][NextTurn]_vars

(***************************************************************************)
(* Two runs: Room, fully wet, silence processed until the cursor is 300    *)
(* ticks short of the end of the Work Area, then the instance and its twin *)
(* process one tick per call, on blocks with the same right channel and    *)
(* different left channels.  The twin and its output are in run.           *)
(***************************************************************************)
TwinRuns == {16084}

\* <<left seed of the instance, left seed of the twin, right seed>>; seed 0
\* is silence
TwinSeeds == { <<1, 0, 2>>, <<3, 4, 5>>, <<6, 7, 0>> }

\* sample n of the channel with the given seed
TwinSample(seed, n) ==
  IF seed = 0 THEN 0
  ELSE (((n % 251) * (n % 241) * 7 + n * seed * 31 + seed * 4099) % 65536) - 32768

\* the two frames of call n
TwinBlock(left, right, n) ==
  <<TwinSample(left, 2 * n), TwinSample(right, 2 * n),
    TwinSample(left, 2 * n + 1), TwinSample(right, 2 * n + 1)>>

\* process on the instance with block a and on the twin with block b
TwinTick(seeds, twin, a, b) ==
  /\ LET r == v2_process_block(inst, a, 2)
     IN /\ inst' = r.inst
        /\ audio' = r.audio
  /\ LET t == v2_process_block(twin, b, 2)
     IN run' = [active |-> FALSE, twin |-> t.inst, audio |-> t.audio, block |-> b]
  /\ op' = [name |-> "process", block |-> a, seeds |-> seeds]
  /\ nops' = nops + 1
  /\ UNCHANGED <<ret, buf, heard, heap>>

NextTwin ==
  \/ /\ nops = 0
     /\ SetParam("preset", 0)
  \/ /\ nops = 1
     /\ SetParam("mix", 10000)
  \/ /\ nops = 2
     /\ \E n \in TwinRuns : SilentRun(n)
  \/ /\ nops = 3
     /\ \E s \in TwinSeeds :
          TwinTick(s, inst, TwinBlock(s[1], s[3], nops), TwinBlock(s[2], s[3], nops))
  \/ /\ nops > 3
     /\ nops < MaxTwinOps
     /\ TwinTick(op.seeds, run.twin, TwinBlock(op.seeds[1], op.seeds[3], nops),
                 TwinBlock(op.seeds[2], op.seeds[3], nops))

SpecTwin == Init /\ [][NextTwin]_vars

(***************************************************************************)
(* The Work Area alone: a preset for its length, then write_relative       *)
(* followed by read_relative at the same offset, and advances of the       *)
(* cursor.                                                                 *)
(***************************************************************************)
WorkPresets == {0, 10000}

\* floats written: around 0, around the quantum 1/32768 (32 units), around
\* +-1, beyond the int16 range, and beyond the int32 range
WorkValues ==
  { Num(0), Num(31), Num(33), Num(-33), Num(12345), Num(One - 1), Num(One),
    Num(-One + 1), Num(-One), Num(-One - 40), Num(2 * One), Num(-2 * One),
    Num(1000 * One),
    [kind |-> "huge_pos"], [kind |-> "huge_neg"] }

\* offsets: an address register, address - 1 from a register equal to 0,
\* address - displacement differences, and offsets past one turn
WorkOffsets == {-1, 0, -421, 5562, -8193, 70000}

WorkAdvances == {1, 8191, 16383}

\* write_relative(offset, x), then read_relative(offset)
WriteRead(x, offset, cast) ==
  /\ inst' = [inst EXCEPT !.work = workarea_write_float(inst.work, offset, x, cast)]
  /\ ret' = workarea_read_relative(workarea_write_float(inst.work, offset, x, cast), offset)
  /\ op' = [name |-> "write_read", value |-> x, offset |-> offset]
  /\ nops' = nops + 1
  /\ UNCHANGED <<audio, buf, heard, run, heap>>

Advance(n) ==
  /\ inst' = [inst EXCEPT !.work = workarea_advance(inst.work, n)]
  /\ op' = [name |-> "advance", n |-> n]
  /\ nops' = nops + 1
  /\ UNCHANGED <<audio, ret, buf, heard, run, heap>>

NextWork ==
  \/ /\ nops = 0
     /\ \E v \in WorkPresets : SetParam("preset", v)
  \/ /\ nops >= 1
     /\ nops < MaxWorkOps
     /\ \/ \E n \in WorkAdvances : Advance(n)
        \/ \E x \in WorkValues, o \in WorkOffsets :
             \E cast \in CastOutcomes(x) : WriteRead(x, o, cast)

SpecWork == Init /\ [][NextWork]_vars

(***************************************************************************)
(* Instances on demand.  The host creates and destroys instances; every    *)
(* call names its instance by the handle v2_create_instance returned.  The *)
(* allocator hands out the blocks 1..MaxBlocks; an allocation fails when   *)
(* the allocator says so (ok = FALSE) or when no block is left.            *)
(***************************************************************************)
\* calloc: the block returned, NULL on failure
calloc(h, ok) ==
  IF ok /\ \E b \in 1..MaxBlocks : b \notin h.live
  THEN CHOOSE b \in 1..MaxBlocks :
         b \notin h.live /\ \A c \in 1..(b - 1) : c \in h.live
  ELSE NULL

\* the heap once block b is allocated
Allocated(h, b) == [h EXCEPT !.live = h.live \cup {b}]

free(h, b) == [h EXCEPT !.live = h.live \ {b}]

\* f without the entry of handle
Without(f, handle) == [g \in (DOMAIN f) \ {handle} |-> f[g]]

\* f with the entry of handle set to v
With(f, handle, v) == [g \in (DOMAIN f) \cup {handle} |-> IF g = handle THEN v ELSE f[g]]

\* v2_create_instance once inst is allocated: the work buffer, then the fields
CreateBuffer(h, p_inst, p_buf) ==
  IF p_buf = NULL THEN [heap |-> free(h, p_inst), handle |-> NULL]
  ELSE [heap |-> [live |-> h.live \cup {p_buf},
                  obj |-> With(h.obj, p_inst, v2_create_instance),
                  wbuf |-> With(h.wbuf, p_inst, p_buf)],
        handle |-> p_inst]

\* the second allocation fails: inst is returned half made and never freed
CreateRecord_leaking(h, p_inst, ok2) ==
  IF p_inst = NULL THEN [heap |-> h, handle |-> NULL]
  ELSE IF calloc(Allocated(h, p_inst), ok2) = NULL
       THEN [heap |-> Allocated(h, p_inst), handle |-> NULL]
       ELSE CreateBuffer(Allocated(h, p_inst), p_inst, calloc(Allocated(h, p_inst), ok2))

\* v2_create_instance from the first allocation on
CreateRecord(h, p_inst, ok2) ==
  IF p_inst = NULL THEN [heap |-> h, handle |-> NULL]
  ELSE CreateBuffer(Allocated(h, p_inst), p_inst, calloc(Allocated(h, p_inst), ok2))

\* v2_create_instance with its allocations: [heap, handle]
v2_create_instance_alloc(h, ok1, ok2) == CreateRecord(h, calloc(h, ok1), ok2)

v2_destroy_instance(h, handle) ==
  IF handle = NULL THEN h
  ELSE [live |-> (IF h.wbuf[handle] # NULL THEN h.live \ {h.wbuf[handle]} ELSE h.live)
                   \ {handle},
        obj |-> Without(h.obj, handle),
        wbuf |-> Without(h.wbuf, handle)]

\* one Work Area for all instances, as the globals of the legacy engine are
StoreInstance_shared_work(h, handle, rec) ==
  [h EXCEPT !.obj = [g \in DOMAIN h.obj |->
                       IF g = handle THEN rec ELSE [h.obj[g] EXCEPT !.work = rec.work]]]

\* the writes of a call through its instance pointer
StoreInstance(h, handle, rec) == [h EXCEPT !.obj[handle] = rec]

HeapBlocks == { <<-32768, 12345, 32767, -1>>, <<500, 600, 700, 800>> }

HeapControlVals == {2500}

Create(ok1, ok2) ==
  /\ heap' = v2_create_instance_alloc(heap, ok1, ok2).heap
  /\ op' = [name |-> "create", ok1 |-> ok1, ok2 |-> ok2,
            handle |-> v2_create_instance_alloc(heap, ok1, ok2).handle]
  /\ nops' = nops + 1
  /\ UNCHANGED <<inst, audio, ret, buf, heard, run>>

Destroy(handle) ==
  /\ heap' = v2_destroy_instance(heap, handle)
  /\ op' = [name |-> "destroy", handle |-> handle]
  /\ nops' = nops + 1
  /\ UNCHANGED <<inst, audio, ret, buf, heard, run>>

SetParamOn(handle, key, val) ==
  /\ heap' = StoreInstance(heap, handle, v2_set_param(heap.obj[handle], key, val))
  /\ op' = [name |-> "set_param", handle |-> handle, key |-> key, val |-> val]
  /\ nops' = nops + 1
  /\ UNCHANGED <<inst, audio, ret, buf, heard, run>>

\* r is what v2_process_block returns on the instance of handle
StoreProcess(handle, r) ==
  /\ heap' = StoreInstance(heap, handle, r.inst)
  /\ audio' = r.audio

ProcessOn(handle, block) ==
  /\ StoreProcess(handle, v2_process_block(heap.obj[handle], block, Len(block) \div 2))
  /\ op' = [name |-> "process", handle |-> handle, block |-> block]
  /\ nops' = nops + 1
  /\ UNCHANGED <<inst, ret, buf, heard, run>>

NextHeap ==
  /\ nops < MaxHeapOps
  /\ \/ \E ok1, ok2 \in BOOLEAN : Create(ok1, ok2)
     \/ \E handle \in DOMAIN heap.obj : Destroy(handle)
     \/ \E handle \in DOMAIN heap.obj : SetParamOn(handle, "preset", 10000)
     \/ \E handle \in DOMAIN heap.obj, k \in ControlKeys, v \in HeapControlVals :
          SetParamOn(handle, k, v)
     \/ \E handle \in DOMAIN heap.obj, b \in HeapBlocks : ProcessOn(handle, b)

SpecHeap == Init /\ [][NextHeap]_vars

(***************************************************************************)
(* Preset selection.                                                       *)
(***************************************************************************)
\* the preset index a host call carries: idx of set_param("preset", val),
\* the "preset" number of a state object, -1 when the call carries none
CarriedPreset ==
  IF op.name = "set_param" /\ op.key = "preset" THEN Atoi(op.val)
  ELSE IF op.name = "set_state" /\ json_has(op.obj, "preset")
       THEN FloatToInt(json_get_number(op.obj, "preset"))
  ELSE -1

CarriesPreset ==
  \/ op.name = "set_param" /\ op.key = "preset"
  \/ op.name = "set_state" /\ json_has(op.obj, "preset")

\* C1: an out-of-range preset index is clamped, never rejected: after a
\* set_param("preset") or a state write carrying a preset with an index
\* below 0 preset 0 is active, with an index above 5 preset 5 is active,
\* as apply_preset of the legacy engine leaves it.
C1_PresetClamped ==
  (CarriesPreset /\ (CarriedPreset < 0 \/ CarriedPreset > 5))
    => inst.preset_idx = apply_preset(inst, CarriedPreset).preset_idx

(***************************************************************************)
(* Wall feedback.                                                          *)
(***************************************************************************)
\* C2: after any sequence of create, preset changes, decay changes and
\* process calls, the wall feedback current.vWALL lies in [-0.995, 0.995].
C2_WallBounded ==
  /\ inst.current.vWALL_f >= -F0995
  /\ inst.current.vWALL_f <= F0995

\* decay at its maximum on a preset selected by the host, then processing
C2_Witness ==
  /\ op.name = "process"
  /\ inst.decay = One
  /\ inst.preset_idx = 1
  /\ inst.current.vWALL_f # 0

\* C3: current.vWALL equals base.vWALL times s, clamped to [-0.995, 0.995],
\* where s = 0.5 + decay for decay <= 0.5 and s = 1 + ((decay - 0.5) / 0.5)
\* (M - 1) above, M = clamp(0.99 / max(|base.vWALL|, 1e-5), 0.5, 10): the
\* law update_decay of the legacy engine computes (within 2^-16).
C3_DecayLaw ==
  Abs(inst.current.vWALL_f - update_decay(inst, inst.decay).current.vWALL_f) <= 16

C5_StateRoundTrip ==
  [][ (op.name = "set_state" /\ op.obj \in RoundTripObjs /\ op'.name = "get_param")
        => (ret' > 0 /\ buf' = <<"json", op.obj>>) ]_vars

\* a state object read back after it replaced other values
C5_Witness ==
  /\ op.name = "get_param"
  /\ op.key = "state"
  /\ nops = 3
  /\ buf = <<"json", [preset |-> 20000, decay |-> 3333, mix |-> 9999,
                      input_gain |-> 6667, reverb_level |-> 2]>>

\* current as the controls and base of i give it
Derived(i) == v2_update_reverb_level(v2_update_input_gain(v2_update_decay(i))).current

\* the effect of a state write o on the instance, as C6 has it, with the
\* preset o carries clamped as apply_preset of the legacy engine clamps it
StateWriteFrame(o) ==
  LET carried == FloatToInt(json_get_number(o, "preset"))
      differs == json_has(o, "preset") /\ carried # inst.preset_idx
  IN /\ \A k \in ControlKeys : ~json_has(o, k) => inst'[k] = inst[k]
     /\ differs =>
          /\ inst'.preset_idx = apply_preset(inst, carried).preset_idx
          /\ inst'.base = v2_scale_preset(g_presets[inst'.preset_idx + 1])
          /\ inst'.work.base = 0
          /\ \A c \in DOMAIN inst'.work.buf : c > inst'.work.size_mask
     /\ ~differs =>
          /\ inst'.preset_idx = inst.preset_idx
          /\ inst'.base = inst.base
          /\ inst'.work = inst.work
     /\ inst'.current = Derived(inst')

\* C6: a state write applies only the keys present: an absent control
\* keeps its value; the full preset re-scale (base re-derived, Work Area
\* cleared, cursor reset) happens if and only if the state carries a preset
\* different from the active one; otherwise Work Area contents, cursor and
\* size are unchanged and current is re-derived.
C6_StateWriteFrame ==
  [][ (op'.name = "set_state" /\ nops' = nops + 1) => StateWriteFrame(op'.obj) ]_vars

\* C6 for the state writes that carry no preset or one in 0..5
C6_StateWriteFrameInRange ==
  [][ ( /\ op'.name = "set_state"
        /\ nops' = nops + 1
        /\ json_has(op'.obj, "preset") =>
             (op'.obj["preset"] >= 0 /\ op'.obj["preset"] < 60000) )
        => StateWriteFrame(op'.obj) ]_vars

(***************************************************************************)
(* Unknown keys.                                                           *)
(***************************************************************************)
RecognisedKeys == {"preset", "decay", "mix", "input_gain", "reverb_level"}

ZeroBlock(b) == \A k \in 1..Len(b) : b[k] = 0

\* j is i but for the Work Area cursor and the four history positions
OnlyCursorsMoved(i, j) ==
  j = [i EXCEPT !.work.base = j.work.base,
                !.down_l.pos = j.down_l.pos, !.down_r.pos = j.down_r.pos,
                !.up_l.pos = j.up_l.pos, !.up_r.pos = j.up_r.pos]

\* C8: silence in gives silence out: from the fresh instance, and from every
\* state with an all-zero Work Area and all-zero histories, processing an
\* all-zero block gives all-zero output and leaves such a state, only the
\* cursors moved.
C8_SilenceFixedPoint ==
  [][ (op'.name = "process" /\ nops' = nops + 1 /\ ZeroBlock(op'.block) /\ Silent(inst))
        => (ZeroBlock(audio') /\ Silent(inst') /\ OnlyCursorsMoved(inst, inst')) ]_vars

\* the fresh instance after three all-zero blocks
C8_Witness ==
  /\ op.name = "process"
  /\ ZeroBlock(op.block)
  /\ inst.work.base = 3
  /\ OnlyCursorsMoved(v2_create_instance, inst)
  /\ audio = <<0, 0, 0, 0>>

\* C9: with mix = 0, on any preset and in any state, process returns every
\* sample of the block within one int16 step of the input sample.
C9_DryPassThrough ==
  (op.name = "process" /\ inst.mix = 0)
    => \A k \in 1..Len(audio) : Abs(audio[k] - op.block[k]) <= 1

\* preset Room, fully dry, while the wet path carries signal
C9_Witness ==
  /\ op.name = "process"
  /\ inst.mix = 0
  /\ inst.preset_idx = 0
  /\ \E k \in 1..HB_STATE_SIZE : inst.up_l.state[k] # 0
  /\ audio # op.block

\* C10: on the fresh instance with mix = 1, after one full-scale impulse on
\* the left channel only, a right-channel output sample is nonzero within
\* 1600 low-rate ticks of the impulse, and none is in the first 1500.
C10_CrossSideHeard ==
  /\ nops > 1601 => heard # -1
  /\ heard # -1 => (heard > 1500 /\ heard < 1600)

\* the tick in which the right channel first sounds
C10_Witness ==
  /\ heard # -1
  /\ heard = nops - 2
  /\ inst.mix = One
  /\ (audio[2] # 0 \/ audio[4] # 0)

\* C10 as stated: the right channel sounds within a few hundred ticks
\* (fewer than a thousand) of the impulse
C10_FewHundredTicks == nops > 1001 => heard # -1

(***************************************************************************)
(* Odd block length.                                                       *)
(***************************************************************************)
\* frames of the block of a process call
Frames(block) == Len(block) \div 2

\* C11: a process call with an odd frame count n leaves frame n - 1 of the
\* buffer as the caller passed it, and the instance as a process call on the
\* first n - 1 frames leaves it
C11_OddBlock ==
  [][ (op'.name = "process" /\ Frames(op'.block) % 2 = 1) =>
        /\ Len(audio') = Len(op'.block)
        /\ audio'[2 * Frames(op'.block) - 1] = op'.block[2 * Frames(op'.block) - 1]
        /\ audio'[2 * Frames(op'.block)] = op'.block[2 * Frames(op'.block)]
        /\ inst' = v2_process_block(inst, SubSeq(op'.block, 1, Len(op'.block) - 2),
                                    Frames(op'.block) - 1).inst ]_vars

\* an odd block of three frames was processed: its first tick ran and changed
\* the first frame, its last frame is there and nonzero
C11_Witness ==
  /\ op.name = "process"
  /\ Frames(op.block) = 3
  /\ audio[1] # op.block[1]
  /\ inst.work.base # 0
  /\ audio[5] = op.block[5]
  /\ audio[5] # 0

\* a single frame was passed: no tick ran
C11_WitnessSingle ==
  /\ op.name = "process"
  /\ Frames(op.block) = 1
  /\ audio = op.block

(***************************************************************************)
(* Parameter writes and the block in progress.                             *)
(***************************************************************************)
\* C12: when a process call ends, the buffer holds what the whole block gives
\* from the instance as it was when the call began: every tick used the
\* coefficients, the mix and the Work Area of the start of the block, whatever
\* set_param calls were issued while the call was in progress
C12_NoTearing ==
  (run.active /\ run.k + 1 >= run.frames) => audio = run.expect

(***************************************************************************)
(* Instances on demand.                                                    *)
(***************************************************************************)
\* the instance of handle g and its buffer are in heap h2 as they are in h1
SameInstance(h1, h2, g) ==
  /\ g \in DOMAIN h2.obj
  /\ h2.obj[g] = h1.obj[g]
  /\ h2.wbuf[g] = h1.wbuf[g]
  /\ g \in h2.live
  /\ h2.wbuf[g] \in h2.live

\* C13: a call on one instance (set_param, process, destroy) or the creation
\* of another leaves every other live instance as it was: preset index,
\* controls, base and current coefficients, Work Area and cursor, halfband
\* histories, and its allocations; no two instances share a buffer
C13_Independent ==
  [][ /\ \A g \in DOMAIN heap.obj :
           (op'.name = "create" \/ op'.handle # g) => SameInstance(heap, heap', g)
      /\ \A g1, g2 \in DOMAIN heap'.obj :
           /\ heap'.wbuf[g1] \notin DOMAIN heap'.obj
           /\ g1 # g2 => heap'.wbuf[g1] # heap'.wbuf[g2] ]_vars

\* two instances live, one just processed a block that left its Work Area
\* cursor and its first output away from those of the other
C13_Witness ==
  /\ op.name = "process"
  /\ audio[1] # op.block[1]
  /\ \E g \in DOMAIN heap.obj :
       /\ g # op.handle
       /\ heap.obj[g].work.base # heap.obj[op.handle].work.base
       /\ heap.obj[g].preset_idx # heap.obj[op.handle].preset_idx

\* C14: create returns NULL when either allocation fails and then leaves the
\* heap as it found it (nothing kept, no instance made); on success it adds
\* exactly one initialised instance and its own buffer, two new blocks; destroy
\* releases exactly the instance and its buffer
C14_CreateAllOrNothing ==
  [][ /\ op'.name = "create" =>
           /\ (~op'.ok1 \/ ~op'.ok2) => op'.handle = NULL
           /\ op'.handle = NULL => heap' = heap
           /\ op'.handle # NULL =>
                /\ op'.handle \notin heap.live
                /\ heap'.wbuf[op'.handle] \notin heap.live
                /\ heap'.wbuf[op'.handle] # op'.handle
                /\ heap'.live = heap.live \cup {op'.handle, heap'.wbuf[op'.handle]}
                /\ DOMAIN heap'.obj = DOMAIN heap.obj \cup {op'.handle}
                /\ heap'.obj[op'.handle] = v2_create_instance
      /\ op'.name = "destroy" =>
           /\ heap'.live = heap.live \ {op'.handle, heap.wbuf[op'.handle]}
           /\ Cardinality(heap'.live) = Cardinality(heap.live) - 2
           /\ DOMAIN heap'.obj = DOMAIN heap.obj \ {op'.handle} ]_vars

\* the second allocation of a create failed while another instance lives:
\* NULL was returned and only the blocks of the other instance are allocated
C14_Witness ==
  /\ nops > 0
  /\ op.name = "create"
  /\ op.ok1
  /\ ~op.ok2
  /\ op.handle = NULL
  /\ Cardinality(DOMAIN heap.obj) = 1
  /\ Cardinality(heap.live) = 2

\* an instance was destroyed and nothing is allocated any more
C14_WitnessDestroy ==
  /\ op.name = "destroy"
  /\ heap.live = {}

\* a create found the allocator with one block left: the instance was
\* allocated, the buffer was not, NULL was returned
C14_WitnessExhausted ==
  /\ nops > 0
  /\ op.name = "create"
  /\ op.ok1
  /\ op.ok2
  /\ op.handle = NULL
  /\ Cardinality(heap.live) = 4

(***************************************************************************)
(* Output range.                                                           *)
(***************************************************************************)
\* the samples of the buffer a process call wrote: the frame pairs
Written(block) == 1..(4 * (Len(block) \div 4))

\* C15: every sample a process call writes lies in [-32767, 32767]
C15_OutputInRange ==
  op.name = "process" =>
    \A k \in Written(op.block) : audio[k] >= -32767 /\ audio[k] <= 32767

\* a fully wet tick came out at the negative rail while its input was at the
\* positive one: the wet signal ran into the clamp
C15_Witness ==
  /\ op.name = "process"
  /\ inst.mix = One
  /\ op.block[1] = 32767
  /\ audio[1] = -32767

(***************************************************************************)
(* The mix and the network.                                                *)
(***************************************************************************)
\* mix values of the second instance
MixProbe == {0, F035, One}

\* instances i and j differ in the mix at most
SameButMix(i, j) == [i EXCEPT !.mix = 0] = [j EXCEPT !.mix = 0]

\* C16: an instance that differs from the live one in its mix only, given the
\* same call, differs from it in the mix only afterwards: the same block
\* leaves the same Work Area, cursor and halfband histories, the same preset
\* or control write the same coefficients, and a write of the mix changes
\* the mix alone
C16_MixNotInNetwork ==
  [][ \A m \in MixProbe :
        /\ op'.name = "process" =>
             SameButMix(v2_process_block([inst EXCEPT !.mix = m], op'.block,
                                         Len(op'.block) \div 2).inst, inst')
        /\ (op'.name = "set_param" /\ op'.key # "mix") =>
             SameButMix(v2_set_param([inst EXCEPT !.mix = m], op'.key, op'.val), inst')
        /\ (op'.name = "set_param" /\ op'.key = "mix") => SameButMix(inst, inst')
        /\ op'.name = "set_state" =>
             SameButMix(v2_set_param([inst EXCEPT !.mix = m], "state", op'.obj), inst') ]_vars

\* a block was processed with a mix away from the default and left signal in
\* the Work Area and in the output
C16_Witness ==
  /\ op.name = "process"
  /\ inst.mix \notin {F035}
  /\ inst.work.buf # EmptyBuf
  /\ audio[1] # 0

(***************************************************************************)
(* Work Area size and contents.                                            *)
(***************************************************************************)
\* elements of the Work Area
WorkSize(i) == i.work.size_mask + 1

\* C17: the Work Area length is a power of two, at least the work_size the
\* active preset declares and at most 65536
C17_WorkSize ==
  /\ \E e \in 0..16 : WorkSize(inst) = 2^e
  /\ WorkSize(inst) >= g_presets[inst.preset_idx + 1].work_size
  /\ WorkSize(inst) <= WORK_MAX_SIZE

\* Studio S was applied: 8000 declared, 8192 elements
C17_Witness ==
  /\ op.name = "set_param"
  /\ op.key = "preset"
  /\ inst.preset_idx = 1
  /\ g_presets[2].work_size = 8000
  /\ WorkSize(inst) = 8192

\* each other preset was applied from a state where another was active
C17_WitnessRoom == inst.preset_idx = 0 /\ WorkSize(inst) = 16384 /\ nops > 0

C17_WitnessStudioM == inst.preset_idx = 2 /\ WorkSize(inst) = 32768 /\ nops > 0

C17_WitnessStudioL == inst.preset_idx = 3 /\ WorkSize(inst) = 32768 /\ nops > 0

C17_WitnessHall == inst.preset_idx = 4 /\ WorkSize(inst) = 65536 /\ nops > 1

C17_WitnessSpaceEcho == inst.preset_idx = 5 /\ WorkSize(inst) = 65536 /\ nops > 0

\* every addressable cell of the Work Area is zero and the cursor is at 0
Cleared(i) ==
  /\ i.work.base = 0
  /\ \A c \in DOMAIN i.work.buf : c > i.work.size_mask

\* C18: a set_param("preset") with any index, the active one included, and a
\* state write that changes the preset leave the Work Area with every
\* addressable cell zero and the cursor at 0
C18_PresetClearsWorkArea ==
  [][ ( \/ op'.name = "set_param" /\ op'.key = "preset"
        \/ op'.name = "set_state" /\ inst'.preset_idx # inst.preset_idx )
      => Cleared(inst') ]_vars

\* C18 for the indices 0..5
C18_PresetClearsWorkAreaInRange ==
  [][ ( \/ /\ op'.name = "set_param"
           /\ op'.key = "preset"
           /\ Atoi(op'.val) >= 0
           /\ Atoi(op'.val) < 6
        \/ op'.name = "set_state" /\ inst'.preset_idx # inst.preset_idx )
      => Cleared(inst') ]_vars

\* a preset was written over a Work Area that held signal past its cursor
\* start: the write found base away from 0 and left it at 0
C18_WitnessInRange ==
  /\ op.name = "set_param"
  /\ op.key = "preset"
  /\ Atoi(op.val) = inst.preset_idx
  /\ nops = 3
  /\ Cleared(inst)
  /\ audio # << >>

(***************************************************************************)
(* base and current under control changes.                                 *)
(***************************************************************************)
\* C19: base is the scaled form of the preset the active index selects
\* (volumes register / 32768, addresses verbatim), in every state: no write
\* of decay, mix, input_gain or reverb_level, by key or by state, and no
\* process call changes it
C19_BaseIsScaledPreset ==
  /\ inst.preset_idx \in 0..5
  /\ inst.base = v2_scale_preset(g_presets[inst.preset_idx + 1])
  /\ inst.base.vWALL_f * 1024 = g_presets[inst.preset_idx + 1].vWALL * 32768
  /\ inst.base.vLIN_f * 1024 = g_presets[inst.preset_idx + 1].vLIN * 32768
  /\ inst.base.mLSAME = g_presets[inst.preset_idx + 1].mLSAME

\* C19 on the steps: a call that leaves the preset index alone leaves base alone
C19_BaseKept ==
  [][ inst'.preset_idx = inst.preset_idx => inst'.base = inst.base ]_vars

\* a preset other than the default is active and current has moved away from
\* base on the input volumes after a control write
C19_Witness ==
  /\ inst.preset_idx # 4
  /\ op.name \in {"set_param", "set_state"}
  /\ inst.input_gain # F05
  /\ inst.current.vLIN_f # inst.base.vLIN_f

\* the fields of current a set_param of key may change
OwnCoefficients(key) ==
  IF key = "decay" THEN {"vWALL_f"}
  ELSE IF key = "input_gain" THEN {"vLIN_f", "vRIN_f"}
  ELSE IF key = "reverb_level" THEN {"vLOUT_f", "vROUT_f"}
  ELSE {}

\* C20: a set_param of decay, input_gain, reverb_level or mix changes, beside
\* the control itself, only its own fields of current (vWALL; vLIN and vRIN;
\* vLOUT and vROUT; none): every other field of current, base, the preset
\* index, the other controls, the Work Area and the halfband histories are
\* as before
C20_OwnCoefficientsOnly ==
  [][ (op'.name = "set_param" /\ op'.key \in ControlKeys) =>
        /\ \A f \in (DOMAIN inst.current) \ OwnCoefficients(op'.key) :
             inst'.current[f] = inst.current[f]
        /\ \A f \in (DOMAIN inst) \ {"current", op'.key} : inst'[f] = inst[f] ]_vars

\* a reverb_level write moved vLOUT on an instance whose input volumes are
\* away from base and whose Work Area holds signal
C20_Witness ==
  /\ op.name = "set_param"
  /\ op.key = "reverb_level"
  /\ inst.reverb_level # F05
  /\ inst.current.vLOUT_f # inst.base.vLOUT_f
  /\ inst.work.base # 0
  /\ inst.work.buf # EmptyBuf

(***************************************************************************)
(* current and the stored controls.                                        *)
(***************************************************************************)
\* the fields of current a control modulates
Modulated == {"vWALL_f", "vLIN_f", "vRIN_f", "vLOUT_f", "vROUT_f"}

\* the input and output volumes of current follow input_gain and
\* reverb_level, and every field no control modulates is that of base
GainsFollowControls(i) ==
  /\ i.current.vLIN_f = Mul(i.base.vLIN_f, Mul(i.input_gain, 2 * One))
  /\ i.current.vRIN_f = Mul(i.base.vRIN_f, Mul(i.input_gain, 2 * One))
  /\ i.current.vLOUT_f = Mul(i.base.vLOUT_f, Mul(i.reverb_level, 4 * One))
  /\ i.current.vROUT_f = Mul(i.base.vROUT_f, Mul(i.reverb_level, 4 * One))
  /\ \A f \in (DOMAIN i.current) \ Modulated : i.current[f] = i.base[f]

\* C21: in every state current.vLIN/vRIN = base.vLIN/vRIN * (input_gain * 2),
\* current.vLOUT/vROUT = base.vLOUT/vROUT * (reverb_level * 4), current.vWALL
\* is the decay mapping of base.vWALL for the stored decay (the two-segment
\* law, within 2^-16), and every other field of current is that of base
C21_LiveCoefficients ==
  /\ GainsFollowControls(inst)
  /\ Abs(inst.current.vWALL_f - update_decay(inst, inst.decay).current.vWALL_f) <= 16

\* C21 with the wall volume as the instance engine maps it, base.vWALL * decay
C21_LiveCoefficientsOwnDecay ==
  /\ GainsFollowControls(inst)
  /\ inst.current.vWALL_f = Mul(inst.base.vWALL_f, inst.decay)

\* a preset was applied over controls away from their defaults and current
\* carries them
C21_WitnessOwnDecay ==
  /\ op.name = "set_param"
  /\ op.key = "preset"
  /\ inst.preset_idx = Atoi(op.val)
  /\ inst.preset_idx # 4
  /\ inst.input_gain # F05
  /\ inst.current.vLIN_f # inst.base.vLIN_f
  /\ C21_LiveCoefficientsOwnDecay

(***************************************************************************)
(* Work Area round trip and addressing.                                    *)
(***************************************************************************)
\* the int16 the claim has stored for float x: trunc toward zero of
\* x * 32768, saturated
StoredFor(x) ==
  IF x.kind = "huge_pos" THEN 32767
  ELSE IF x.kind = "huge_neg" THEN -32768
  ELSE IF Sgn(x.q) * (Abs(x.q) \div 32) > 32767 THEN 32767
  ELSE IF Sgn(x.q) * (Abs(x.q) \div 32) < -32768 THEN -32768
  ELSE Sgn(x.q) * (Abs(x.q) \div 32)

\* the read after the write returns StoredFor / 32768; an in-range value
\* comes back no larger in magnitude and less than 1/32768 away
RoundTrip(x) ==
  /\ ret = StoredFor(x) * 32
  /\ (x.kind = "num" /\ x.q < One /\ x.q >= -One) =>
       /\ Abs(ret) <= Abs(x.q)
       /\ Abs(x.q - ret) < 32
  /\ (x.kind = "huge_pos" \/ (x.kind = "num" /\ x.q >= One)) => ret = 32767 * 32
  /\ (x.kind = "huge_neg" \/ (x.kind = "num" /\ x.q <= -One)) => ret = -One

\* every cell of the Work Area is an int16
CellsInt16 == \A c \in DOMAIN inst.work.buf :
                inst.work.buf[c] >= -32768 /\ inst.work.buf[c] <= 32767

C22_RoundTripRepresentable ==
  /\ CellsInt16
  /\ (op.name = "write_read" /\ op.value.kind = "num") => RoundTrip(op.value)

\* 2.0 was written at offset -1 with the cursor advanced: 32767/32768 is read
C22_WitnessRepresentable ==
  /\ op.name = "write_read"
  /\ op.value = Num(2 * One)
  /\ op.offset = -1
  /\ inst.work.base # 0
  /\ ret = 32767 * 32

\* C24: relative addressing wraps mathematically: for every cursor, length L
\* and signed offset o, negative ones included, the write and the read access
\* cell (base + o) mod L, the non-negative remainder, and no cell outside
\* 0 .. L-1
C24_NegativeOffsetsWrap ==
  [][op'.name = "write_read" =>
       /\ DOMAIN inst'.work.buf \subseteq 0 .. inst.work.size_mask
       /\ \A c \in DOMAIN inst.work.buf \cup DOMAIN inst'.work.buf :
            c # (inst.work.base + op'.offset) % (inst.work.size_mask + 1)
              => Cell(inst'.work.buf, c) = Cell(inst.work.buf, c)
       /\ Cell(inst'.work.buf,
               (inst.work.base + op'.offset) % (inst.work.size_mask + 1))
            = StoredFor(op'.value) \/ op'.value.kind # "num"
       /\ ret' = 32 * Cell(inst'.work.buf,
                    (inst.work.base + op'.offset) % (inst.work.size_mask + 1))]_vars

\* offset -1 with the cursor at 0 reached the last cell of the Work Area
C24_Witness ==
  /\ op.name = "write_read"
  /\ op.offset = -1
  /\ inst.work.base = 0
  /\ Cell(inst.work.buf, inst.work.size_mask) = 32767

\* an offset past one turn backwards, from an advanced cursor
C24_WitnessTurn ==
  /\ op.name = "write_read"
  /\ op.offset = -8193
  /\ inst.work.base = 1
  /\ inst.work.size_mask = 8191
  /\ Cell(inst.work.buf, 0) = -32768

(***************************************************************************)
(* The cursor of the Work Area.                                            *)
(***************************************************************************)
IsPow2(n) == n >= 1 /\ BitAnd(n, n - 1) = 0

\* C23: in every state the length of the Work Area is a power of two and
\* 0 <= base < length; process over n frames advances base by floor(n/2)
\* modulo the length, one step per tick; no operation other than process and
\* the application of a preset changes base
C23_Cursor ==
  /\ [](IsPow2(inst.work.size_mask + 1)
         /\ inst.work.base >= 0 /\ inst.work.base <= inst.work.size_mask)
  /\ [][
         /\ (op'.name = "process" /\ nops' = nops + 1 /\ ~run.active)
            => /\ inst'.work.size_mask = inst.work.size_mask
               /\ inst'.work.base = (inst.work.base + (Len(op'.block) \div 2) \div 2)
                                      % (inst.work.size_mask + 1)
         /\ (op'.name = "silent_run" /\ nops' = nops + 1)
            => inst'.work.base = (inst.work.base + (2 * op'.n) \div 2)
                                   % (inst.work.size_mask + 1)
         /\ (run.active /\ run'.active)
            => /\ run'.k = run.k + 2
               /\ inst'.work.base = (inst.work.base + 1) % (inst.work.size_mask + 1)
         /\ (run.active /\ ~run'.active)
            => (run.k = 2 * (run.frames \div 2) /\ inst'.work = inst.work)
         /\ (~run.active /\ run'.active)
            => (run'.k = 0 /\ inst'.work = inst.work)
         /\ (op'.name = "set_param" /\ nops' = nops + 1 /\ op'.key # "preset"
               /\ op'.key # "state")
            => inst'.work = inst.work]_vars

\* the closed form of the silent run is the loop: one tick of zero frames on
\* a silent instance gives silent_ticks(inst, 1)
C23_SilentTick ==
  [][(op'.name = "process" /\ nops' = nops + 1 /\ ~run.active
        /\ op'.block = <<0, 0, 0, 0>> /\ Silent(inst))
       => inst' = silent_ticks(inst, 1)]_vars

\* one tick of zero frames was processed on a silent instance at the last
\* cell of the Work Area
C23_WitnessSilentTick ==
  /\ op.name = "process"
  /\ op.block = <<0, 0, 0, 0>>
  /\ Silent(inst)
  /\ inst.work.base = 0
  /\ inst.down_l.pos = 0
  /\ nops = 4

\* a block of three ticks took the cursor of Room through the end of the
\* Work Area: 16382, 16383, 0, 1
C23_Witness ==
  /\ op.name = "process"
  /\ Len(op.block) = 14
  /\ inst.work.size_mask = 16383
  /\ inst.work.base = 1
  /\ nops = 3

\* a block of two ticks with audio took the cursor of Studio Small to 0
C23_WitnessLoud ==
  /\ op.name = "process"
  /\ Len(op.block) = 8
  /\ inst.work.size_mask = 8191
  /\ inst.work.base = 0
  /\ inst.work.buf # EmptyBuf

(***************************************************************************)
(* The halfband filters.                                                   *)
(***************************************************************************)
\* sample k of the output block is the dry sample alone
DryOnly(k) == audio[k] = SampleOut(MixOut(SampleIn(op.block[k]), 0, inst.mix))

\* C25: the second, phase-1 output of halfband_interpolate is 0 for every
\* input and history, and the call moves the history cursor by 2 modulo 64;
\* so the wet contribution to every odd-indexed frame of a block is 0
C25_OddFrameDry ==
  /\ [](op.name = "interpolate" => (op.s1 = 0 /\ ret = 0))
  /\ []((op.name = "process" /\ Len(op.block) >= 4) => (DryOnly(3) /\ DryOnly(4)))
  /\ [][(op'.name = "interpolate" /\ nops' = nops + 1)
          => /\ inst'.up_l.pos = (inst.up_l.pos + 2) % 64
             /\ inst'.up_l.state[inst.up_l.pos + 1] = op'.in_tick
             /\ inst'.up_l.state[((inst.up_l.pos + 1) % 64) + 1] = 0]_vars

\* an interpolation whose first output is not 0 gave 0 as its second
C25_Witness ==
  /\ op.name = "interpolate"
  /\ nops = MaxFill
  /\ op.in_tick # 0
  /\ op.s0 # 0
  /\ op.s1 = 0

\* a block processed on the filled interpolator: the wet signal is in the
\* even frame and not in the odd one
C25_WitnessBlock ==
  /\ op.name = "process"
  /\ Len(op.block) >= 4
  /\ ~DryOnly(1)
  /\ DryOnly(3)

\* C26: on the zero-initialised filter every decimate(0, 0) returns 0; from
\* any history, after 20 calls decimate(0, 0) in a row every further one
\* returns 0; every decimate call moves the cursor by 2 modulo 64
C26_DecimateSilence ==
  /\ []((op.name = "decimate" /\ op.zeros = nops) => ret = 0)
  /\ []((op.name = "decimate" /\ op.zeros > 20) => ret = 0)
  /\ [][(op'.name = "decimate" /\ nops' = nops + 1)
          => inst'.down_l.pos = (inst.down_l.pos + 2) % 64]_vars

\* call 21 on zeros after a full-scale history returned 0
C26_Witness ==
  /\ op.name = "decimate"
  /\ op.pattern = 2
  /\ op.zeros = 21
  /\ ret = 0

\* the last tap still sees the history in call 19 on zeros
C26_WitnessTail ==
  /\ op.name = "decimate"
  /\ op.zeros = 19
  /\ ret # 0

\* on the zero-initialised filter
C26_WitnessFresh ==
  /\ op.name = "decimate"
  /\ op.zeros = nops
  /\ nops = MaxFill
  /\ inst.down_l.pos = 40

(***************************************************************************)
(* The two engines.                                                        *)
(***************************************************************************)
\* C27: from the same coefficient set, mix, Work Area and halfband
\* histories, fx_process_block of the global engine and v2_process_block of
\* the instance engine give the same output block and the same next state,
\* for every input block
C27_SameProcess ==
  [][(op'.name = "process" /\ nops' = nops + 1)
       => fx_process_block(inst, op'.block, Len(op'.block) \div 2)
            = [g |-> inst', audio |-> audio']]_vars

\* a fully wet tick at the clamp, fed back from a written Work Area
C27_Witness ==
  /\ op.name = "process"
  /\ inst.mix = One
  /\ audio[2] = 32767
  /\ Cardinality(DOMAIN inst.work.buf) > 100
  /\ inst.work.base > 100

(***************************************************************************)
(* What process writes.                                                    *)
(***************************************************************************)
\* C28: process writes the audio buffer, the Work Area (cells and cursor)
\* and the four halfband histories only: the preset index, the four
\* controls, base and current are as before, and no get_param answer changes
C28_ProcessFrame ==
  [][(op'.name = "process" /\ nops' = nops + 1)
       => /\ inst' = [inst EXCEPT !.work = inst'.work,
                                   !.down_l = inst'.down_l, !.down_r = inst'.down_r,
                                   !.up_l = inst'.up_l, !.up_r = inst'.up_r]
          /\ inst'.work.size_mask = inst.work.size_mask
          /\ \A k \in GetKeys, n \in BufLens :
               v2_get_param(inst', k, n) = v2_get_param(inst, k, n)
          /\ ret' = ret /\ buf' = buf]_vars

\* a block was processed after a preset change and a control write: the
\* audio, the Work Area and the histories changed
C28_Witness ==
  /\ op.name = "process"
  /\ nops = 3
  /\ inst.preset_idx = 3
  /\ inst.mix = One
  /\ audio # op.block
  /\ inst.work.buf # EmptyBuf
  /\ inst.work.base = 1
  /\ ~ZeroHistory(inst.down_l)
  /\ inst.up_r.pos = 2

(***************************************************************************)
(* The delay taps and the length of the Work Area.                         *)
(***************************************************************************)
\* the address and displacement registers of coefficient set p
Registers(p) ==
  { p.dAPF1, p.dAPF2, p.dLSAME, p.dRSAME, p.dLDIFF, p.dRDIFF,
    p.mLSAME, p.mRSAME, p.mLDIFF, p.mRDIFF,
    p.mLCOMB1, p.mRCOMB1, p.mLCOMB2, p.mRCOMB2,
    p.mLCOMB3, p.mRCOMB3, p.mLCOMB4, p.mRCOMB4,
    p.mLAPF1, p.mRAPF1, p.mLAPF2, p.mRAPF2 }

\* the address-minus-displacement offsets of the all-pass reads
Differences(p) ==
  { p.mLAPF1 - p.dAPF1, p.mRAPF1 - p.dAPF1, p.mLAPF2 - p.dAPF2, p.mRAPF2 - p.dAPF2 }

\* the address-minus-one offsets of the reflection reads
MinusOnes(p) == { p.mLSAME - 1, p.mRSAME - 1, p.mLDIFF - 1, p.mRDIFF - 1 }

\* every offset a tick reads or writes at
TickOffsets(p) ==
  (Registers(p) \ {p.dAPF1, p.dAPF2}) \cup {p.dLSAME, p.dRSAME, p.dLDIFF, p.dRDIFF}
    \cup Differences(p) \cup MinusOnes(p)

\* the offsets of p fit a Work Area of the given length
TapsFit(p, length) ==
  /\ \A r \in Registers(p) \cup Differences(p) : r >= 0 /\ r < length
  /\ \A r \in MinusOnes(p) : r >= -1 /\ r < length

\* the length of the Work Area the global engine chooses for preset idx
FxLength(idx) ==
  apply_preset([preset_idx |-> idx, decay |-> F08, mix |-> F035,
                input_gain |-> F05, reverb_level |-> F05,
                current |-> ZeroScaled, base |-> ZeroScaled,
                work |-> [buf |-> EmptyBuf, size_mask |-> 0, base |-> 0]],
               idx).work.size_mask + 1

\* the offsets are as many cells of a Work Area with cursor base
DistinctCells(offsets, base, size_mask) ==
  Cardinality({ WrapIndex([base |-> base, size_mask |-> size_mask], o) : o \in offsets })
    = Cardinality(offsets)

\* C30: the delay taps do not alias through the mask: for each of the six
\* presets every address and displacement register and every
\* address-minus-displacement difference is >= 0 (address-minus-one reads
\* >= -1) and below the length of the Work Area chosen for the preset, in
\* either engine; so distinct offsets of a tick are distinct cells
C30_TapsDoNotAlias ==
  /\ Registers(inst.current) = Registers(g_presets[inst.preset_idx + 1])
  /\ TapsFit(inst.current, inst.work.size_mask + 1)
  /\ TapsFit(inst.current, FxLength(inst.preset_idx))
  /\ DistinctCells(TickOffsets(inst.current), inst.work.base, inst.work.size_mask)
  /\ DistinctCells(TickOffsets(inst.current), inst.work.base % FxLength(inst.preset_idx),
                   FxLength(inst.preset_idx) - 1)

\* Room with the cursor on the last cell of the Work Area, after audio
C30_Witness ==
  /\ inst.preset_idx = 0
  /\ inst.work.base = inst.work.size_mask
  /\ inst.work.buf # EmptyBuf
  /\ WrapIndex(inst.work, -1) = inst.work.size_mask - 1
  /\ WrapIndex(inst.work, inst.current.mLSAME) = inst.current.mLSAME - 1

\* each of the six presets at the turn of its Work Area
C30_WitnessStudioSmall == inst.preset_idx = 1 /\ inst.work.base = 8191

C30_WitnessStudioMedium == inst.preset_idx = 2 /\ inst.work.base = 32767

C30_WitnessStudioLarge == inst.preset_idx = 3 /\ inst.work.base = 32767

C30_WitnessHall == inst.preset_idx = 4 /\ inst.work.base = 65535

C30_WitnessSpaceEcho == inst.preset_idx = 5 /\ inst.work.base = 65535

(***************************************************************************)
(* Room is dual mono.                                                      *)
(***************************************************************************)
\* C29: on the Room preset (cross-side addresses and displacements 0, comb 3
\* and 4 volumes 0) two runs that differ in the left input only give the
\* same right wet output at every tick, also after the Work Area has wrapped
C29_RoomDualMono ==
  (op.name = "process" /\ nops > 3)
    => (inst.preset_idx = 0 /\ inst.mix = One
        /\ audio[2] = run.audio[2] /\ audio[4] = run.audio[4])

\* past the turn of the Work Area, both channels wet, the left outputs of
\* the two runs apart and the right outputs equal
C29_Witness ==
  /\ op.name = "process"
  /\ nops > 3
  /\ op.seeds = <<3, 4, 5>>
  /\ inst.work.base < 300
  /\ audio[1] # run.audio[1]
  /\ audio[2] # 0
  /\ audio[2] = run.audio[2]
  /\ inst.work # run.twin.work

\* the right input silent: the left input alone is heard on the left only
C29_WitnessRightSilent ==
  /\ op.name = "process"
  /\ nops > 3
  /\ op.seeds = <<6, 7, 0>>
  /\ inst.work.base < 300
  /\ audio[1] # 0
  /\ audio[2] = 0
  /\ audio[4] = 0

====
